---- MODULE Spec2Model ----
(***************************************************************************)
(* SmartMentor: the rule-based classifiers of the Arduino guide pipeline.  *)
(*                                                                         *)
(* Python strings are modelled as sequences of one-character strings, so   *)
(* that lower-casing, trimming, substring search and the word-boundary     *)
(* regular expression are computed character by character.  Floats that    *)
(* the code obtains by one division are kept as exact fractions            *)
(* [num, den].                                                             *)
(***************************************************************************)
EXTENDS Integers, Sequences, FiniteSets, TLC

VARIABLES
    \* ---- LLMClassifier (src/src/llm_classifier.py) ----
    use_openai,     \* self.use_openai
    api_key,        \* self.api_key: a string or None
    openai,         \* self.openai: the imported module or None
    t_text,         \* the text the classifier is called with
    t_op,           \* the method of the last call, "new" after construction
    t_outcome,      \* what the ChatCompletion service did in that call
    t_invoked,      \* TRUE iff that call reached ChatCompletion.create
    t_scores,       \* category_scores as that call computed it, <<>> if it did not
    t_result,       \* the (category, confidence) it returned
    \* ---- ImageClassifier (src/src/image_classifier.py) ----
    i_file,         \* the image file the classifier is called with
    i_op,           \* the method of the last call, "new" before any
    i_result,       \* what it returned
    \* ---- ImageClassifier.organize_images ----
    source_exists,  \* data/scraped_images exists
    source_files,   \* the files below it, in the order rglob walks them
    dest_files,     \* the files below data/classified_images
    o_pc,           \* "idle", "loop" (inside the for loop) or "done"
    image_files,    \* the list the loop iterates over
    o_idx,          \* the position of the loop in image_files
    classification_results,
    o_runs,         \* the calls of organize_images so far
    \* ---- DataCleaner (src/src/Phase1_OfflineProcessing/auto_database_mapper.py)
    \* ---- and EnhancedDataCleaner (.../enhanced_data_mapper.py) ----
    cleaner,        \* the class of the cleaner that was constructed
    data,           \* self.data: the cleaned frames, in the order they were loaded
    schema_mapping, \* self.schema_mapping
    m_op,           \* how the last call ended, "new" after construction
    m_calls,        \* the calls of map_to_schema so far
    sql_statements, \* the list generate_sql_inserts built last
    m_sql,          \* the string it returned
    \* ---- the JSON files of LLMClassifier.process_data_file and of
    \* ---- DataComparer (src/src/comparison_tool.py) ----
    raw_file,       \* data/raw/<input_filename>
    scraper_file,   \* self.scraper_path
    llm_file,       \* self.llm_path, the default output of process_data_file
    comparison_file, \* data/processed/comparison_results.json
    f_op,           \* how the last call ended, "new" before any
    f_result,       \* what it returned
    f_outcomes,     \* what the ChatCompletion service did for each item
    f_created,      \* the input files the last call wrote because they were absent
    \* ---- main of the experimental pipeline (src/archive/main_experimental.py)
    p_pc,           \* "idle", "stages", "report", "done" or "aborted"
    p_files,        \* the report and data files that exist below data/
    p_results,      \* results: the (name, success) pairs appended so far
    p_runs,         \* how often each stage function was called
    p_outcomes,     \* what the body of each stage that was called did
    p_report,       \* the components of the final report, <<>> before it is written
    \* ---- DatabaseHandler (src/src/Phase2_Runtime/database_handler.py) ----
    conn,           \* self.conn: "connection" or None
    db,             \* the committed rows of Devices, Components and Guides
    d_serial,       \* the DeviceIDs the sequence of Devices has handed out
    d_op,           \* how the last call ended, "new" before any
    d_calls,        \* the calls of insert_scraped_data so far
    d_data,         \* data of the last call, <<>> if the file could not be loaded
    d_inserted      \* the Devices rows insert_scraped_data has committed

textVars ==
    <<use_openai, api_key, openai, t_text, t_op, t_outcome, t_invoked, t_scores, t_result>>

imageVars == <<i_file, i_op, i_result>>

orgVars ==
    <<source_exists, source_files, dest_files, o_pc, image_files, o_idx,
      classification_results, o_runs>>

mapVars == <<cleaner, data, schema_mapping, m_op, m_calls, sql_statements, m_sql>>

fileVars ==
    <<raw_file, scraper_file, llm_file, comparison_file, f_op, f_result, f_outcomes,
      f_created>>

mainVars == <<p_pc, p_files, p_results, p_runs, p_outcomes, p_report>>

dbVars == <<conn, db, d_serial, d_op, d_calls, d_data, d_inserted>>

vars == <<textVars, imageVars, orgVars, mapVars, fileVars, mainVars, dbVars>>

\* the variables a component leaves alone
notText == <<imageVars, orgVars, mapVars, fileVars, mainVars, dbVars>>
notImage == <<textVars, orgVars, mapVars, fileVars, mainVars, dbVars>>
notOrg == <<textVars, imageVars, mapVars, fileVars, mainVars, dbVars>>
notMap == <<textVars, imageVars, orgVars, fileVars, mainVars, dbVars>>
notFiles == <<t_text, t_op, t_outcome, t_invoked, t_scores, t_result,
              imageVars, orgVars, mapVars, mainVars, dbVars>>
notMain == <<textVars, imageVars, orgVars, mapVars, fileVars, dbVars>>
notDb == <<textVars, imageVars, orgVars, mapVars, fileVars, mainVars>>

(***************************************************************************)
(* Bounds of the model.                                                    *)
(***************************************************************************)
\* a text is the concatenation of at most MaxFrags fragments of Vocabulary
MaxFrags == 2
\* a source directory holds at most MaxFiles files
MaxFiles == 2
\* organize_images is called at most MaxRuns times
MaxRuns == 2
\* a cleaned csv file holds at most MaxRows rows
MaxRows == 2
\* map_to_schema is called at most MaxCalls times
MaxCalls == 2

(***************************************************************************)
(* Strings.                                                                *)
(***************************************************************************)
None == <<"None">>

\* truth value of a string or None
Truthy(x) == x # None /\ x # <<>>

UpperCase == <<"A","B","C","D","E","F","G","H","I","J","K","L","M","N","O","P","Q","R","S","T","U","V","W","X","Y","Z">>
LowerCase == <<"a","b","c","d","e","f","g","h","i","j","k","l","m","n","o","p","q","r","s","t","u","v","w","x","y","z">>
Digits == <<"0","1","2","3","4","5","6","7","8","9">>

\* whitespace removed by str.strip()
WhiteSpace == {" ", "\n", "\t", "\r"}

\* the characters \w matches
WordChars == {UpperCase[i] : i \in 1..26} \cup {LowerCase[i] : i \in 1..26}
             \cup {Digits[i] : i \in 1..10} \cup {"_"}

LowerChar(c) ==
    IF \E i \in 1..26 : UpperCase[i] = c
    THEN LowerCase[CHOOSE i \in 1..26 : UpperCase[i] = c]
    ELSE c

\* str.lower()
Lower(s) == [i \in 1..Len(s) |-> LowerChar(s[i])]

RECURSIVE LStrip(_)
LStrip(s) == IF s # <<>> /\ Head(s) \in WhiteSpace THEN LStrip(Tail(s)) ELSE s

RECURSIVE RStrip(_)
RStrip(s) ==
    IF s # <<>> /\ s[Len(s)] \in WhiteSpace THEN RStrip(SubSeq(s, 1, Len(s) - 1)) ELSE s

\* str.strip()
Strip(s) == RStrip(LStrip(s))

\* keyword occurs in s at position i
OccursAt(s, keyword, i) ==
    /\ i >= 1
    /\ i + Len(keyword) - 1 <= Len(s)
    /\ s[i] = keyword[1]
    /\ SubSeq(s, i, i + Len(keyword) - 1) = keyword

\* `keyword in s'
Contains(s, keyword) == \E i \in 1..Len(s) : OccursAt(s, keyword, i)

\* \b between s[p] and s[p+1]; outside the string counts as a non-word character
IsWordAt(s, p) == p >= 1 /\ p <= Len(s) /\ s[p] \in WordChars
Boundary(s, p) == IsWordAt(s, p) # IsWordAt(s, p + 1)

\* re.search(r'\b' + re.escape(keyword) + r'\b', s)
WordMatch(s, keyword) ==
    \E i \in 1..Len(s) :
        /\ OccursAt(s, keyword, i)
        /\ Boundary(s, i - 1)
        /\ Boundary(s, i + Len(keyword) - 1)

RECURSIVE Concat(_)
Concat(ss) == IF ss = <<>> THEN <<>> ELSE Head(ss) \o Concat(Tail(ss))

(***************************************************************************)
(* LLMClassifier                                                           *)
(***************************************************************************)
keyword_categories == <<
    [category |-> "Pin Definitions",
     keywords |-> << <<"p","i","n">>, <<"p","i","n","o","u","t">>, <<"g","p","i","o">>, <<"d","i","g","i","t","a","l">>, <<"a","n","a","l","o","g">>, <<"p","w","m">>,
                     <<"i","2","c">>, <<"s","p","i">>, <<"u","a","r","t">>, <<"t","x">>, <<"r","x">>, <<"v","c","c">>, <<"g","n","d">> >>],
    [category |-> "Programming Instructions",
     keywords |-> << <<"c","o","d","e">>, <<"p","r","o","g","r","a","m">>, <<"s","k","e","t","c","h">>, <<"v","o","i","d"," ","s","e","t","u","p">>, <<"v","o","i","d"," ","l","o","o","p">>,
                     <<"f","u","n","c","t","i","o","n">>, <<"l","i","b","r","a","r","y">>, <<"d","i","g","i","t","a","l","w","r","i","t","e">>, <<"a","n","a","l","o","g","r","e","a","d">>,
                     <<"s","e","r","i","a","l",".","b","e","g","i","n">> >>],
    [category |-> "Component Descriptions",
     keywords |-> << <<"s","e","n","s","o","r">>, <<"l","e","d">>, <<"r","e","s","i","s","t","o","r">>, <<"c","a","p","a","c","i","t","o","r">>, <<"m","o","t","o","r">>,
                     <<"d","i","s","p","l","a","y">>, <<"m","o","d","u","l","e">>, <<"t","r","a","n","s","i","s","t","o","r">>, <<"d","i","o","d","e">>, <<"b","r","e","a","d","b","o","a","r","d">>,
                     <<"j","u","m","p","e","r">> >>],
    [category |-> "Troubleshooting Tips",
     keywords |-> << <<"e","r","r","o","r">>, <<"p","r","o","b","l","e","m">>, <<"f","i","x">>, <<"d","e","b","u","g">>, <<"s","o","l","u","t","i","o","n">>, <<"i","s","s","u","e">>,
                     <<"w","o","n","'","t"," ","w","o","r","k">>, <<"n","o","t"," ","w","o","r","k","i","n","g">>, <<"f","a","i","l","e","d">>, <<"c","h","e","c","k">>, <<"v","e","r","i","f","y">> >>]
>>

\* the five category names of the prompt of classify_with_openai
TextCategories ==
    {"Pin Definitions", "Programming Instructions", "Component Descriptions",
     "Troubleshooting Tips", "Other"}

Frac(n, d) == [num |-> n, den |-> d]
Zero == Frac(0, 1)
One == Frac(1, 1)

\* (mutant) both increments for a keyword that matches as a whole word
KeywordScoreBoth(text_lower, keyword) ==
    (IF WordMatch(text_lower, keyword) THEN 2 ELSE 0)
    + (IF Contains(text_lower, keyword) THEN 1 ELSE 0)

\* one keyword's contribution to its category's score (the if / elif of the loop)
KeywordScore(text_lower, keyword) ==
    IF WordMatch(text_lower, keyword) THEN 2
    ELSE IF Contains(text_lower, keyword) THEN 1
    ELSE 0

RECURSIVE SumScores(_, _)
SumScores(text_lower, keywords) ==
    IF keywords = <<>> THEN 0
    ELSE KeywordScore(text_lower, Head(keywords)) + SumScores(text_lower, Tail(keywords))

\* the score the loop accumulates for the k-th category
CategoryScore(text_lower, k) == SumScores(text_lower, keyword_categories[k].keywords)

\* (mutant) a category needs a score above 1 to be kept
RECURSIVE ScoresFromAboveOne(_, _)
ScoresFromAboveOne(text_lower, k) ==
    IF k > Len(keyword_categories) THEN <<>>
    ELSE LET score == CategoryScore(text_lower, k)
             rest == ScoresFromAboveOne(text_lower, k + 1)
         IN  IF score > 1
             THEN <<[category |-> keyword_categories[k].category, k |-> k,
                     score |-> score]>> \o rest
             ELSE rest

\* category_scores: the categories with score > 0, in the order of keyword_categories
RECURSIVE ScoresFrom(_, _)
ScoresFrom(text_lower, k) ==
    IF k > Len(keyword_categories) THEN <<>>
    ELSE LET score == CategoryScore(text_lower, k)
             rest == ScoresFrom(text_lower, k + 1)
         IN  IF score > 0
             THEN <<[category |-> keyword_categories[k].category, k |-> k,
                     score |-> score]>> \o rest
             ELSE rest

\* (mutant) the last item whose score is maximal
RECURSIVE MaxByScoreLast(_, _)
MaxByScoreLast(best, items) ==
    IF items = <<>> THEN best
    ELSE MaxByScoreLast(IF Head(items).score >= best.score THEN Head(items) ELSE best,
                        Tail(items))

\* max(items, key=score): the first item whose score is maximal
RECURSIVE MaxByScore(_, _)
MaxByScore(best, items) ==
    IF items = <<>> THEN best
    ELSE MaxByScore(IF Head(items).score > best.score THEN Head(items) ELSE best,
                    Tail(items))

\* (mutant) max(score / max_possible, 1.0)
ConfidenceMax(score, max_possible) ==
    IF score > max_possible THEN Frac(score, max_possible) ELSE One

\* min(score / max_possible, 1.0)
Confidence(score, max_possible) ==
    IF score > max_possible THEN One ELSE Frac(score, max_possible)

\* A call returns (category, confidence); the model keeps with them the
\* category_scores the call built, <<>> when it built none.
Return(category, confidence, category_scores) ==
    [category |-> category, confidence |-> confidence, category_scores |-> category_scores]

classify_with_keywords(text) ==
    IF ~Truthy(text) THEN Return("Other", Zero, <<>>)
    ELSE LET text_lower == Lower(text)
             category_scores == ScoresFrom(text_lower, 1)
         IN  IF category_scores # <<>>
             THEN LET best == MaxByScore(Head(category_scores), Tail(category_scores))
                      max_possible == Len(keyword_categories[best.k].keywords) * 2
                  IN  Return(best.category, Confidence(best.score, max_possible),
                             category_scores)
             ELSE Return("Other", Zero, category_scores)

\* What ChatCompletion.create and the reading of its response can do:
\*   "raise"     the call raises (network error, timeout, API error)
\*   "malformed" the response has no choices[0].message.content to strip
\*   "ok"        content is lead whitespace, body, trailing whitespace
Bodies ==
    {"Pin Definitions", "Other", "Pins", "Category: Pin Definitions", ""}

Outcomes ==
    {[kind |-> "raise", lead |-> 0, body |-> "", trail |-> 0],
     [kind |-> "malformed", lead |-> 0, body |-> "", trail |-> 0]}
    \cup {[kind |-> "ok", lead |-> 0, body |-> b, trail |-> 0] : b \in Bodies}
    \cup {[kind |-> "ok", lead |-> 1, body |-> "Pin Definitions", trail |-> 1]}

NoOutcome == [kind |-> "none", lead |-> 0, body |-> "", trail |-> 0]

\* content.strip(): the whitespace around the body goes, the body stays
StripContent(outcome) == outcome.body

\* (mutant) a failed call yields ("Other", 0.0) instead of the keyword result
classify_with_openai_no_fallback(text, outcome) ==
    IF outcome.kind = "ok"
    THEN Return(StripContent(outcome), Frac(9, 10), <<>>)
    ELSE Return("Other", Zero, <<>>)

classify_with_openai(text, outcome) ==
    IF outcome.kind = "ok"
    THEN Return(StripContent(outcome), Frac(9, 10), <<>>)
    ELSE classify_with_keywords(text)

\* (mutant) the length is taken without trimming
TooShortUntrimmed(text) == ~Truthy(text) \/ Len(text) < 10

\* `not text or len(text.strip()) < 10'
TooShort(text) == ~Truthy(text) \/ Len(Strip(text)) < 10

\* the imported openai module
OpenAIModule == <<"module openai">>

\* the api_key arguments of __init__
ApiKeys == {None, <<"s","k","-","1">>}

\* `self.use_openai and self.openai'
Delegates == use_openai /\ Truthy(openai)

classify_text(text, outcome) ==
    IF TooShort(text) THEN Return("Other", Zero, <<>>)
    ELSE IF Delegates THEN classify_with_openai(text, outcome)
    ELSE classify_with_keywords(text)

\* whether classify_text reaches ChatCompletion.create
InvokesService(text) == ~TooShort(text) /\ Delegates

(***************************************************************************)
(* ImageClassifier                                                         *)
(***************************************************************************)
\* self.categories, in declaration order
categories == <<
    [category |-> "pinouts",
     keywords |-> << <<"p","i","n","o","u","t">>, <<"d","i","a","g","r","a","m">>, <<"p","i","n">>, <<"l","a","y","o","u","t">>, <<"s","c","h","e","m","a","t","i","c">> >>],
    [category |-> "tutorials",
     keywords |-> << <<"t","u","t","o","r","i","a","l">>, <<"s","t","e","p">>, <<"g","u","i","d","e">>, <<"i","n","s","t","r","u","c","t","i","o","n">>, <<"h","o","w","t","o">> >>],
    [category |-> "components",
     keywords |-> << <<"c","o","m","p","o","n","e","n","t">>, <<"p","a","r","t">>, <<"s","e","n","s","o","r">>, <<"m","o","d","u","l","e">>, <<"b","o","a","r","d">> >>],
    [category |-> "circuits",
     keywords |-> << <<"c","i","r","c","u","i","t">>, <<"w","i","r","i","n","g">>, <<"c","o","n","n","e","c","t","i","o","n">>, <<"b","r","e","a","d","b","o","a","r","d">> >>],
    [category |-> "other", keywords |-> << >>]
>>

\* self.image_extensions
image_extensions == << <<".","j","p","g">>, <<".","j","p","e","g">>, <<".","p","n","g">>, <<".","g","i","f">>, <<".","b","m","p">>, <<".","t","i","f","f">> >>

\* A file of the file system: its directory below the source directory, its name
\* (stem and suffix), whether PIL decodes it and then its width, height, mode and
\* format, its size in bytes, and whether its bytes can be read at all.
ImageFile(dir, stem, suffix, decodable, width, height, bytes, readable) ==
    [dir |-> dir, stem |-> stem, suffix |-> suffix, decodable |-> decodable,
     width |-> width, height |-> height, mode |-> "RGB", format |-> "PNG",
     bytes |-> bytes, readable |-> readable]

\* Path(image_path).name
FileName(file) == file.stem \o file.suffix

\* extract_features returned None
NoFeatures == [none |-> TRUE]

\* extract_features: Image.open raises on a file PIL cannot decode or read
extract_features(file) ==
    IF file.decodable /\ file.readable
    THEN LET wide == file.width > file.height /\ file.width > 800
         IN  [width |-> file.width,
              height |-> file.height,
              aspect_ratio |-> IF file.height > 0 THEN Frac(file.width, file.height)
                               ELSE Zero,
              mode |-> file.mode,
              format |-> file.format,
              size_kb |-> Frac(file.bytes, 1024),
              is_wide |-> wide,
              likely_pinout |-> wide]
    ELSE NoFeatures

\* the first category, in declaration order, one of whose keywords occurs in the name
RECURSIVE FirstCategoryFrom(_, _)
FirstCategoryFrom(filename_lower, k) ==
    IF k > Len(categories) THEN "other"
    ELSE IF \E i \in 1..Len(categories[k].keywords) :
                Contains(filename_lower, categories[k].keywords[i])
         THEN categories[k].category
         ELSE FirstCategoryFrom(filename_lower, k + 1)

classify_by_filename(filename) == FirstCategoryFrom(Lower(filename), 1)

\* a < b for fractions with positive denominators
FracLess(a, b) == a.num * b.den < b.num * a.den

\* (mutant) the components rule is tried before the pinouts rule
classify_by_features_swapped(features) ==
    IF features = NoFeatures THEN "other"
    ELSE IF /\ FracLess(Frac(8, 10), features.aspect_ratio)
            /\ FracLess(features.aspect_ratio, Frac(12, 10))
            /\ FracLess(features.size_kb, Frac(500, 1))
         THEN "components"
    ELSE IF features.likely_pinout THEN "pinouts"
    ELSE IF 2 * features.width > 3 * features.height THEN "tutorials"
    ELSE "other"

classify_by_features(features) ==
    IF features = NoFeatures THEN "other"
    ELSE IF features.likely_pinout THEN "pinouts"
    ELSE IF /\ FracLess(Frac(8, 10), features.aspect_ratio)
            /\ FracLess(features.aspect_ratio, Frac(12, 10))
            /\ FracLess(features.size_kb, Frac(500, 1))
         THEN "components"
    ELSE IF 2 * features.width > 3 * features.height THEN "tutorials"
    ELSE "other"

\* (mutant) a decisive feature category is preferred to the filename category
classify_image_features_first(file) ==
    LET filename == FileName(file)
        category_by_name == classify_by_filename(filename)
        features == extract_features(file)
        category_by_features == classify_by_features(features)
    IN  [filename |-> filename,
         path |-> <<file.dir, filename>>,
         category |-> IF category_by_features # "other" THEN category_by_features
                      ELSE category_by_name,
         confidence |-> IF category_by_features # "other" THEN Frac(6, 10)
                        ELSE Frac(8, 10),
         features |-> features,
         classification_method |-> IF category_by_features # "other" THEN "features"
                                   ELSE "filename"]

classify_image(file) ==
    LET filename == FileName(file)
        category_by_name == classify_by_filename(filename)
        features == extract_features(file)
        category_by_features == classify_by_features(features)
    IN  [filename |-> filename,
         path |-> <<file.dir, filename>>,
         category |-> IF category_by_name # "other" THEN category_by_name
                      ELSE category_by_features,
         confidence |-> IF category_by_name # "other" THEN Frac(8, 10) ELSE Frac(6, 10),
         features |-> features,
         classification_method |-> IF category_by_name # "other" THEN "filename"
                                   ELSE "features"]

(***************************************************************************)
(* The images the classifier is called with.                               *)
(***************************************************************************)
Stems ==
    { <<"p","i","n","o","u","t">>,
      <<"I","M","G","_","0","0","1">>,
      <<"W","i","r","i","n","g","-","D","i","a","g","r","a","m">>,
      <<"s","t","e","p","p","e","r","_","b","o","a","r","d">>,
      <<"b","r","e","a","d","b","o","a","r","d">>,
      <<"s","e","n","s","o","r">>,
      <<"p","h","o","t","o">> }

Widths == {300, 400, 800, 801, 1000, 1201}
Heights == {0, 400, 800, 1000}
Sizes == {102400, 511999, 512000}

ImageFiles ==
    {ImageFile("", stem, <<".","p","n","g">>, TRUE, w, h, b, TRUE) :
        stem \in Stems, w \in Widths, h \in Heights, b \in Sizes}
    \cup {ImageFile("", stem, <<".","p","n","g">>, FALSE, 0, 0, b, r) :
            stem \in Stems, b \in {102400}, r \in BOOLEAN}

(***************************************************************************)
(* Each specification runs one component; the others stay as constructed.  *)
(***************************************************************************)
\* organize_images has not been called
InitOrganizeIdle ==
    /\ source_exists = FALSE
    /\ source_files = <<>>
    /\ dest_files = {}
    /\ o_pc = "idle"
    /\ image_files = <<>>
    /\ o_idx = 0
    /\ classification_results = <<>>
    /\ o_runs = 0

\* no LLMClassifier call is under way
InitTextIdle ==
    /\ use_openai = FALSE
    /\ api_key = None
    /\ openai = None
    /\ t_text = None
    /\ t_op = "new"
    /\ t_outcome = NoOutcome
    /\ t_invoked = FALSE
    /\ t_scores = <<>>
    /\ t_result = <<>>

\* self.schema_mapping as __init__ sets it
NewSchemaMapping ==
    [Devices |-> <<>>, Components |-> <<>>, Guides |-> <<>>, Steps |-> <<>>]

\* a DataCleaner with nothing loaded and nothing mapped
InitMapperIdle ==
    /\ cleaner = "DataCleaner"
    /\ data = <<>>
    /\ schema_mapping = NewSchemaMapping
    /\ m_op = "new"
    /\ m_calls = 0
    /\ sql_statements = <<>>
    /\ m_sql = <<>>

\* a path at which there is no file, and a JSON file with its content
Absent == [exists |-> FALSE, content |-> <<>>]
JsonFile(content) == [exists |-> TRUE, content |-> content]

\* no data file exists and neither process_data_file nor DataComparer has run
InitFilesIdle ==
    /\ raw_file = Absent
    /\ scraper_file = Absent
    /\ llm_file = Absent
    /\ comparison_file = Absent
    /\ f_op = "new"
    /\ f_result = <<>>
    /\ f_outcomes = <<>>
    /\ f_created = {}

\* main has not been called
InitMainIdle ==
    /\ p_pc = "idle"
    /\ p_files = {}
    /\ p_results = <<>>
    /\ p_runs = <<0, 0, 0, 0, 0>>
    /\ p_outcomes = <<>>
    /\ p_report = <<>>

\* DatabaseHandler.__init__: no connection; the tables are empty
InitDbIdle ==
    /\ conn = None
    /\ db = [Devices |-> <<>>, Components |-> <<>>, Guides |-> <<>>]
    /\ d_serial = 0
    /\ d_op = "new"
    /\ d_calls = 0
    /\ d_data = <<>>
    /\ d_inserted = {}

\* no call of the image classifier yet
NoImage == ImageFile("", <<>>, <<>>, FALSE, 0, 0, 0, FALSE)

InitImageIdle ==
    /\ i_file = NoImage
    /\ i_op = "new"
    /\ i_result = <<>>

(***************************************************************************)
(* ImageClassifier: calls on one image.                                    *)
(***************************************************************************)
\* i_file is the image the calls that follow classify
InitImage ==
    /\ InitTextIdle
    /\ InitOrganizeIdle
    /\ InitMapperIdle
    /\ InitFilesIdle
    /\ InitMainIdle
    /\ InitDbIdle
    /\ i_file \in ImageFiles
    /\ i_op = "new"
    /\ i_result = <<>>

\* classify_image(i_file)
ClassifyImage ==
    /\ i_op' = "classify_image"
    /\ i_result' = classify_image(i_file)
    /\ UNCHANGED <<i_file, notImage>>

\* classify_by_filename(name of i_file)
ClassifyByFilename ==
    /\ i_op' = "classify_by_filename"
    /\ i_result' = classify_by_filename(FileName(i_file))
    /\ UNCHANGED <<i_file, notImage>>

\* classify_by_features(extract_features(i_file))
ClassifyByFeatures ==
    /\ i_op' = "classify_by_features"
    /\ i_result' = classify_by_features(extract_features(i_file))
    /\ UNCHANGED <<i_file, notImage>>

NextImage ==
    \/ ClassifyImage
    \/ ClassifyByFilename
    \/ ClassifyByFeatures

SpecImage == InitImage /\ [][NextImage]_vars

(***************************************************************************)
(* The texts the classifier is called with.                                *)
(***************************************************************************)
Vocabulary ==
    { <<"p","i","n"," ">>,
      <<"p","i","n","o","u","t"," ","d","i","a","g","r","a","m"," ","g","p","i","o"," ","a","n","a","l","o","g">>,
      <<"s","k","e","t","c","h"," ","c","o","d","e"," ">>,
      <<"G","P","I","O"," ","s","e","n","s","o","r"," ">>,
      <<" "," "," ">>,
      <<"w","o","n","'","t"," ","w","o","r","k">>,
      <<"x","y","z","z","y"," ","p","l","u","g","h"," ">>,
      <<"e","r","r","o","r","_","f","i","x"," ">> }

Texts ==
    {None} \cup {Concat(fs) : fs \in UNION {[1..n -> Vocabulary] : n \in 0..MaxFrags}}

(***************************************************************************)
(* LLMClassifier: construction and calls on one text.                      *)
(***************************************************************************)
\* __init__(use_openai, key): lib_installed tells whether `import openai' succeeds;
\* text is the text the calls that follow classify
InitText ==
    \E u \in BOOLEAN, key \in ApiKeys, lib_installed \in BOOLEAN, text \in Texts :
        /\ api_key = key
        /\ IF u /\ Truthy(key)
           THEN IF lib_installed
                THEN use_openai = u /\ openai = OpenAIModule
                ELSE use_openai = FALSE /\ openai = None
           ELSE use_openai = u /\ openai = None
        /\ t_op = "new"
        /\ t_text = text
        /\ t_outcome = NoOutcome
        /\ t_invoked = FALSE
        /\ t_scores = <<>>
        /\ t_result = <<>>
        /\ InitImageIdle
        /\ InitOrganizeIdle
        /\ InitMapperIdle
        /\ InitFilesIdle
        /\ InitMainIdle
        /\ InitDbIdle

\* classify_text(t_text); outcome is what the service does if the call reaches it
ClassifyText(outcome) ==
    /\ t_op' = "classify_text"
    /\ t_invoked' = InvokesService(t_text)
    /\ t_outcome' = outcome
    /\ \E r \in {classify_text(t_text, outcome)} :
          /\ t_result' = [category |-> r.category, confidence |-> r.confidence]
          /\ t_scores' = r.category_scores
    /\ UNCHANGED <<use_openai, api_key, openai, t_text, notText>>

\* classify_with_keywords(t_text)
ClassifyWithKeywords ==
    /\ t_op' = "classify_with_keywords"
    /\ t_invoked' = FALSE
    /\ t_outcome' = NoOutcome
    /\ \E r \in {classify_with_keywords(t_text)} :
          /\ t_result' = [category |-> r.category, confidence |-> r.confidence]
          /\ t_scores' = r.category_scores
    /\ UNCHANGED <<use_openai, api_key, openai, t_text, notText>>

NextText ==
    \/ \E outcome \in (IF InvokesService(t_text) THEN Outcomes ELSE {NoOutcome}) :
           ClassifyText(outcome)
    \/ ClassifyWithKeywords

SpecText == InitText /\ [][NextText]_vars

(***************************************************************************)
(* ImageClassifier.organize_images                                         *)
(***************************************************************************)
\* str(n) for n >= 0
RECURSIVE ToStr(_)
ToStr(n) ==
    IF n < 10 THEN <<Digits[n + 1]>>
    ELSE ToStr(n \div 10) \o <<Digits[(n % 10) + 1]>>

\* name ends with ext: what the pattern "*" + ext matches
EndsWith(name, ext) ==
    /\ Len(name) >= Len(ext)
    /\ SubSeq(name, Len(name) - Len(ext) + 1, Len(name)) = ext

RECURSIVE SelectFiles(_, _)
SelectFiles(files, ext) ==
    IF files = <<>> THEN <<>>
    ELSE (IF EndsWith(FileName(Head(files)), ext) THEN <<Head(files)>> ELSE <<>>)
         \o SelectFiles(Tail(files), ext)

\* image_files: for ext in image_extensions: extend(source_dir.rglob("*" + ext))
RECURSIVE RGlobFrom(_, _)
RGlobFrom(files, e) ==
    IF e > Len(image_extensions) THEN <<>>
    ELSE SelectFiles(files, image_extensions[e]) \o RGlobFrom(files, e + 1)

\* dest_path.exists() for dest_dir / name
DestExists(dest, category, name) ==
    \E d \in dest : d.category = category /\ d.name = name

\* f"{stem}_{counter}{suffix}"
SuffixedName(img, counter) == img.stem \o <<"_">> \o ToStr(counter) \o img.suffix

FreeNameFromLast(dest, category, img, counter) ==
    IF DestExists(dest, category, FileName(img))
    THEN SuffixedName(img, Cardinality(dest) + 1)
    ELSE FileName(img)

FreeNameFromOwn(dest, category, img, counter) == FileName(img)

\* the while loop: img_path.name if free, else the first free stem_counter suffix
RECURSIVE FreeNameFrom(_, _, _, _)
FreeNameFrom(dest, category, img, counter) ==
    LET new_name == IF counter = 0 THEN FileName(img)
                    ELSE SuffixedName(img, counter)
    IN  IF DestExists(dest, category, new_name)
        THEN FreeNameFrom(dest, category, img, counter + 1)
        ELSE new_name

\* shutil.copy2(img_path, dest_path) in the run-th call: the destination holds
\* the content of origin under category / name, whatever was there before
Copy2(dest, category, name, origin, run) ==
    {d \in dest : ~(d.category = category /\ d.name = name)}
    \cup {[category |-> category, name |-> name, origin |-> origin, run |-> run]}

\* the entry appended after a successful copy
Organized(result, new_name) ==
    [filename |-> result.filename,
     path |-> result.path,
     category |-> result.category,
     confidence |-> result.confidence,
     features |-> result.features,
     classification_method |-> result.classification_method,
     new_path |-> <<"classified_images", result.category, new_name>>,
     organized |-> TRUE]

\* the entry appended by the except branch
ErrorEntry(img) ==
    [filename |-> FileName(img),
     path |-> <<img.dir, FileName(img)>>,
     error |-> "copy failed",
     organized |-> FALSE]

(***************************************************************************)
(* The directories organize_images runs on.                                *)
(***************************************************************************)
OrgFiles ==
    { ImageFile("", <<"p","i","n","o","u","t">>, <<".","p","n","g">>, TRUE, 1000, 400, 102400, TRUE),
      ImageFile("sub", <<"p","i","n","o","u","t">>, <<".","p","n","g">>, TRUE, 400, 400, 102400, TRUE),
      ImageFile("", <<"p","i","n","o","u","t","_","1">>, <<".","p","n","g">>, TRUE, 300, 400, 512000, TRUE),
      ImageFile("", <<"I","M","G","_","0","0","1">>, <<".","p","n","g">>, FALSE, 0, 0, 102400, TRUE),
      ImageFile("", <<"p","h","o","t","o">>, <<".","p","n","g">>, FALSE, 0, 0, 102400, FALSE),
      ImageFile("", <<"p","h","o","t","o">>, <<".","j","p","g">>, TRUE, 400, 400, 102400, TRUE),
      ImageFile("", <<"n","o","t","e","s">>, <<".","t","x","t">>, FALSE, 0, 0, 102400, TRUE),
      ImageFile("", <<"s","e","n","s","o","r">>, <<".","p","n","g">>, FALSE, 0, 0, 102400, TRUE) }

\* the source directories: at most MaxFiles files, in the order rglob walks them
SourceDirs ==
    {fs \in UNION {[1..n -> OrgFiles] : n \in 0..MaxFiles} :
        \A i, j \in 1..Len(fs) : i < j => fs[i] # fs[j]}

\* a file that was in the destination before the first run
OldFile(category, name) ==
    [category |-> category, name |-> name, origin |-> <<"old">>, run |-> 0]

DestDirs == { {}, {OldFile("pinouts", <<"p","i","n","o","u","t",".","p","n","g">>)} }

InitOrganize ==
    /\ InitTextIdle
    /\ InitImageIdle
    /\ InitMapperIdle
    /\ InitFilesIdle
    /\ InitMainIdle
    /\ InitDbIdle
    /\ source_exists \in BOOLEAN
    /\ source_files \in (IF source_exists THEN SourceDirs ELSE {<<>>})
    /\ dest_files \in DestDirs
    /\ o_pc = "idle"
    /\ image_files = <<>>
    /\ o_idx = 0
    /\ classification_results = <<>>
    /\ o_runs = 0

\* organize_images with no source directory: return []
OrganizeNoSource ==
    /\ o_pc \in {"idle", "done"}
    /\ o_runs < MaxRuns
    /\ ~source_exists
    /\ classification_results' = <<>>
    /\ o_pc' = "done"
    /\ o_runs' = o_runs + 1
    /\ UNCHANGED <<source_exists, source_files, dest_files, image_files, o_idx, notOrg>>

\* organize_images up to its loop: the image files are collected
OrganizeStart ==
    /\ o_pc \in {"idle", "done"}
    /\ o_runs < MaxRuns
    /\ source_exists
    /\ image_files' = RGlobFrom(source_files, 1)
    /\ classification_results' = <<>>
    /\ o_idx' = 1
    /\ o_pc' = "loop"
    /\ UNCHANGED <<source_exists, source_files, dest_files, o_runs, notOrg>>

\* one iteration of the loop: classify, find a free name, copy, record
OrganizeStep ==
    /\ o_pc = "loop"
    /\ o_idx <= Len(image_files)
    /\ LET img_path == image_files[o_idx]
           result == classify_image(img_path)
           new_name == FreeNameFrom(dest_files, result.category, img_path, 0)
       IN  IF img_path.readable
           THEN /\ dest_files' = Copy2(dest_files, result.category, new_name,
                                        <<img_path.dir, FileName(img_path)>>,
                                        o_runs + 1)
                /\ classification_results' =
                      Append(classification_results, Organized(result, new_name))
           ELSE /\ dest_files' = dest_files
                /\ classification_results' =
                      Append(classification_results, ErrorEntry(img_path))
    /\ o_idx' = o_idx + 1
    /\ UNCHANGED <<source_exists, source_files, image_files, o_pc, o_runs, notOrg>>

\* the loop is over: return classification_results
OrganizeReturn ==
    /\ o_pc = "loop"
    /\ o_idx > Len(image_files)
    /\ o_pc' = "done"
    /\ o_runs' = o_runs + 1
    /\ UNCHANGED <<source_exists, source_files, dest_files, image_files, o_idx,
                   classification_results, notOrg>>

NextOrganize ==
    \/ OrganizeNoSource
    \/ OrganizeStart
    \/ OrganizeStep
    \/ OrganizeReturn

SpecOrganize == InitOrganize /\ [][NextOrganize]_vars


(***************************************************************************)
(* Frames: what DataCleaner uses of pandas.  A frame is its column names   *)
(* and its rows, each row under its index label.                           *)
(***************************************************************************)
\* numpy.nan, the value of a cell a frame has no value for
NaN == <<"NaN">>

\* str(val)
Str(val) == IF val = NaN THEN <<"n","a","n">> ELSE val

\* pd.notna(val)
notna(val) == val # NaN

DataFrame(columns, index, rows) == [columns |-> columns, index |-> index, rows |-> rows]

\* the index of a frame built from a dict of lists, or rebuilt by ignore_index
RangeIndex(n) == [k \in 1..n |-> k - 1]

InSeq(seq, x) == \E i \in 1..Len(seq) : seq[i] = x

PositionOf(seq, x) == CHOOSE i \in 1..Len(seq) : seq[i] = x

\* the columns of the frames, in the order of their first appearance
RECURSIVE UnionColumns(_, _)
UnionColumns(columns, frames) ==
    IF frames = <<>> THEN columns
    ELSE UnionColumns(columns \o SelectSeq(Head(frames).columns,
                                           LAMBDA col : ~InSeq(columns, col)),
                      Tail(frames))

\* the rows of df under the given columns; NaN where df has no such column
Reindex(df, columns) ==
    [k \in 1..Len(df.rows) |->
        [c \in 1..Len(columns) |->
            IF InSeq(df.columns, columns[c])
            THEN df.rows[k][PositionOf(df.columns, columns[c])]
            ELSE NaN]]

RECURSIVE ConcatRows(_, _)
ConcatRows(frames, columns) ==
    IF frames = <<>> THEN <<>>
    ELSE Reindex(Head(frames), columns) \o ConcatRows(Tail(frames), columns)

\* pd.concat(frames, ignore_index=True) of a non-empty list of frames
pd_concat(frames) ==
    LET columns == UnionColumns(<<>>, frames)
        rows == ConcatRows(frames, columns)
    IN  DataFrame(columns, RangeIndex(Len(rows)), rows)

\* df[cols]
Select(df, cols) == DataFrame(cols, df.index, Reindex(df, cols))

RECURSIVE DropLastFrom(_, _)
DropLastFrom(df, k) ==
    IF k > Len(df.rows) THEN DataFrame(df.columns, <<>>, <<>>)
    ELSE LET rest == DropLastFrom(df, k + 1)
         IN  IF \E j \in (k + 1)..Len(df.rows) : df.rows[j] = df.rows[k]
             THEN rest
             ELSE DataFrame(df.columns, <<df.index[k]>> \o rest.index,
                            <<df.rows[k]>> \o rest.rows)

drop_duplicates_keep_last(df) == DropLastFrom(df, 1)

\* the rows from the k-th on that no earlier row equals, under their labels
RECURSIVE DropFrom(_, _)
DropFrom(df, k) ==
    IF k > Len(df.rows) THEN DataFrame(df.columns, <<>>, <<>>)
    ELSE LET rest == DropFrom(df, k + 1)
         IN  IF \E j \in 1..(k - 1) : df.rows[j] = df.rows[k]
             THEN rest
             ELSE DataFrame(df.columns, <<df.index[k]>> \o rest.index,
                            <<df.rows[k]>> \o rest.rows)

\* df.drop_duplicates(): the first occurrence of every row, the index kept
drop_duplicates(df) == DropFrom(df, 1)

\* any(kw in col for kw in keywords)
AnyIn(col, keywords) == \E i \in 1..Len(keywords) : Contains(col, keywords[i])

\* [col for col in df.columns if any(kw in col for kw in keywords)]
ColumnsWith(df, keywords) == SelectSeq(df.columns, LAMBDA col : AnyIn(col, keywords))

\* sep.join(strings)
RECURSIVE Join(_, _)
Join(sep, strings) ==
    IF strings = <<>> THEN <<>>
    ELSE IF Len(strings) = 1 THEN strings[1]
    ELSE strings[1] \o sep \o Join(sep, Tail(strings))

(***************************************************************************)
(* DataCleaner.map_to_schema.  The CreatedAt stamps of the records are     *)
(* left out; DateCreated is the date of the run.                           *)
(***************************************************************************)
device_keywords == << <<"d","e","v","i","c","e">>, <<"b","o","a","r","d">>, <<"a","r","d","u","i","n","o">>, <<"n","a","m","e">> >>
component_keywords == << <<"c","o","m","p","o","n","e","n","t">>, <<"p","i","n">>, <<"v","o","l","t","a","g","e">>, <<"c","u","r","r","e","n","t">>, <<"t","y","p","e">> >>
guide_keywords == << <<"g","u","i","d","e">>, <<"t","u","t","o","r","i","a","l">>, <<"t","i","t","l","e">>, <<"i","n","s","t","r","u","c","t","i","o","n">> >>
step_keywords == << <<"s","t","e","p">>, <<"i","n","s","t","r","u","c","t","i","o","n">>, <<"d","e","s","c","r","i","p","t","i","o","n">>, <<"p","r","o","c","e","d","u","r","e">> >>

\* the frames the extractors fall back on
DefaultDevices ==
    DataFrame(<< <<"d","e","v","i","c","e","_","n","a","m","e">>, <<"d","e","v","i","c","e","_","t","y","p","e">> >>, RangeIndex(1),
              << << <<"A","r","d","u","i","n","o"," ","U","N","O"," ","R","3">>, <<"M","i","c","r","o","c","o","n","t","r","o","l","l","e","r"," ","B","o","a","r","d">> >> >>)

DefaultGuides ==
    DataFrame(<< <<"g","u","i","d","e","_","t","i","t","l","e">> >>, RangeIndex(1),
              << << <<"G","e","t","t","i","n","g"," ","S","t","a","r","t","e","d"," ","w","i","t","h"," ","A","r","d","u","i","n","o"," ","U","N","O">> >> >>)

DefaultSteps ==
    DataFrame(<< <<"s","t","e","p">> >>, RangeIndex(4),
              << << <<"C","o","n","n","e","c","t"," ","t","h","e"," ","U","S","B"," ","c","a","b","l","e"," ","t","o"," ","y","o","u","r"," ","A","r","d","u","i","n","o"," ","U","N","O">> >>,
                 << <<"I","n","s","t","a","l","l"," ","t","h","e"," ","A","r","d","u","i","n","o"," ","I","D","E"," ","o","n"," ","y","o","u","r"," ","c","o","m","p","u","t","e","r">> >>,
                 << <<"S","e","l","e","c","t"," ","y","o","u","r"," ","b","o","a","r","d"," ","i","n"," ","t","h","e"," ","T","o","o","l","s"," ","m","e","n","u">> >>,
                 << <<"U","p","l","o","a","d"," ","t","h","e"," ","f","i","r","s","t"," ","s","k","e","t","c","h">> >> >>)

\* datetime.now().date().isoformat()
Today == <<"2","0","2","5","-","0","1","-","1","5">>

\* the dict one iteration of _extract_devices appends
Device(idx, row) ==
    [DeviceID |-> idx + 1,
     DeviceName |-> Str(IF Len(row) > 0 THEN row[1] ELSE <<"A","r","d","u","i","n","o"," ","U","N","O">>),
     DeviceType |-> <<"M","i","c","r","o","c","o","n","t","r","o","l","l","e","r"," ","B","o","a","r","d">>,
     ImageURL |-> None]

\* self.schema_mapping['Devices'] after _extract_devices(df)
extract_devices(df, Devices) ==
    LET device_cols == ColumnsWith(df, device_keywords)
        devices == IF device_cols # <<>>
                   THEN drop_duplicates(Select(df, device_cols))
                   ELSE DefaultDevices
    IN  Devices \o [k \in 1..Len(devices.rows) |->
                       Device(devices.index[k], devices.rows[k])]

\* the dict one iteration of _extract_components appends
Component(idx, row) ==
    [ComponentID |-> idx + 1,
     DeviceID |-> 1,
     ComponentName |-> Str(IF Len(row) > 0 THEN row[1]
                           ELSE <<"C","o","m","p","o","n","e","n","t","_">> \o ToStr(idx)),
     Description |-> LET vals == SelectSeq(Tail(row), notna)
                     IN  Join(<<" ","|"," ">>, [i \in 1..Len(vals) |-> Str(vals[i])])]

\* self.schema_mapping['Components'] after _extract_components(df)
extract_components(df, Components) ==
    LET component_cols == ColumnsWith(df, component_keywords)
    IN  IF component_cols # <<>>
        THEN LET components_df == drop_duplicates(Select(df, component_cols))
             IN  Components \o [k \in 1..Len(components_df.rows) |->
                                   Component(components_df.index[k],
                                             components_df.rows[k])]
        ELSE Components

\* the dict one iteration of _extract_guides appends
Guide(idx, row) ==
    [GuideID |-> idx + 1,
     DeviceID |-> 1,
     Title |-> Str(IF Len(row) > 0 THEN row[1] ELSE <<"G","u","i","d","e","_">> \o ToStr(idx)),
     DateCreated |-> Today,
     GuideURL |-> None]

\* self.schema_mapping['Guides'] after _extract_guides(df)
extract_guides(df, Guides) ==
    LET guide_cols == ColumnsWith(df, guide_keywords)
        guides_df == IF guide_cols # <<>>
                     THEN drop_duplicates(Select(df, guide_cols))
                     ELSE DefaultGuides
    IN  Guides \o [k \in 1..Len(guides_df.rows) |->
                      Guide(guides_df.index[k], guides_df.rows[k])]

\* the dict one iteration of the inner loop of _extract_steps appends
Step(Steps, guide_id, step_num, row) ==
    [StepID |-> Len(Steps) + 1,
     GuideID |-> guide_id,
     StepNumber |-> step_num + 1,
     Description |-> Str(IF Len(row) > 0 THEN row[1]
                         ELSE <<"S","t","e","p"," ">> \o ToStr(step_num + 1))]

\* the inner loop from the k-th row of steps_df on
RECURSIVE StepsOfGuide(_, _, _, _)
StepsOfGuide(Steps, steps_df, guide_id, k) ==
    IF k > Len(steps_df.rows) THEN Steps
    ELSE StepsOfGuide(Append(Steps, Step(Steps, guide_id, steps_df.index[k],
                                         steps_df.rows[k])),
                      steps_df, guide_id, k + 1)

\* the outer loop: enumerate(Guides, 1) from guide_id on
RECURSIVE StepsOfGuides(_, _, _, _)
StepsOfGuides(Steps, steps_df, Guides, guide_id) ==
    IF guide_id > Len(Guides) THEN Steps
    ELSE StepsOfGuides(StepsOfGuide(Steps, steps_df, guide_id, 1),
                       steps_df, Guides, guide_id + 1)

\* self.schema_mapping['Steps'] after _extract_steps(df)
extract_steps(df, Guides, Steps) ==
    LET step_cols == ColumnsWith(df, step_keywords)
        steps_df == IF step_cols # <<>>
                    THEN drop_duplicates(Select(df, step_cols))
                    ELSE DefaultSteps
    IN  StepsOfGuides(Steps, steps_df, Guides, 1)

\* self.schema_mapping after map_to_schema, for a non-empty self.data
map_to_schema(frames, mapping) ==
    LET all_data == pd_concat(frames)
        Guides == extract_guides(all_data, mapping.Guides)
    IN  [Devices |-> extract_devices(all_data, mapping.Devices),
         Components |-> extract_components(all_data, mapping.Components),
         Guides |-> Guides,
         Steps |-> extract_steps(all_data, Guides, mapping.Steps)]

(***************************************************************************)
(* DataCleaner.generate_sql_inserts                                        *)
(***************************************************************************)
ReplaceNothing(s, old, new) == s

\* s.replace(old, new) for a one-character old
RECURSIVE Replace(_, _, _)
Replace(s, old, new) ==
    IF s = <<>> THEN <<>>
    ELSE (IF Head(s) = old THEN new ELSE <<Head(s)>>) \o Replace(Tail(s), old, new)

\* a statement of a device that quotes the text of ImageURL whatever it is
DeviceInsertQuoted(device) ==
    <<"I","N","S","E","R","T"," ","I","N","T","O"," ","D","e","v","i","c","e","s"," ","(","D","e","v","i","c","e","N","a","m","e",","," ","D","e","v","i","c","e","T","y","p","e",","," ","I","m","a","g","e","U","R","L",")"," ">> \o <<"\n">>
    \o <<"V","A","L","U","E","S"," ","(","'">> \o device.DeviceName \o <<"'",","," ","'">> \o device.DeviceType \o <<"'",","," ","'">>
    \o (IF device.ImageURL = None THEN <<"N","o","n","e">> ELSE device.ImageURL)
    \o <<"'",")",";">>

\* the statement of one device
DeviceInsert(device) ==
    <<"I","N","S","E","R","T"," ","I","N","T","O"," ","D","e","v","i","c","e","s"," ","(","D","e","v","i","c","e","N","a","m","e",","," ","D","e","v","i","c","e","T","y","p","e",","," ","I","m","a","g","e","U","R","L",")"," ">> \o <<"\n">>
    \o <<"V","A","L","U","E","S"," ","(","'">> \o device.DeviceName \o <<"'",","," ","'">> \o device.DeviceType \o <<"'",","," ">>
    \o (IF Truthy(device.ImageURL) THEN <<"'">> \o device.ImageURL \o <<"'">>
        ELSE <<"N","U","L","L">>)
    \o <<")",";">>

\* the statement of one component
ComponentInsert(component) ==
    <<"I","N","S","E","R","T"," ","I","N","T","O"," ","C","o","m","p","o","n","e","n","t","s"," ","(","D","e","v","i","c","e","I","D",","," ","C","o","m","p","o","n","e","n","t","N","a","m","e",","," ","D","e","s","c","r","i","p","t","i","o","n",")"," ">> \o <<"\n">>
    \o <<"V","A","L","U","E","S"," ","(">> \o ToStr(component.DeviceID) \o <<","," ","'">>
    \o component.ComponentName \o <<"'",","," ","'">>
    \o Replace(component.Description, "'", <<"'","'">>) \o <<"'",")",";">>

\* the statement of one guide
GuideInsert(guide) ==
    <<"I","N","S","E","R","T"," ","I","N","T","O"," ","G","u","i","d","e","s"," ","(","D","e","v","i","c","e","I","D",","," ","T","i","t","l","e",","," ","D","a","t","e","C","r","e","a","t","e","d",")"," ">> \o <<"\n">>
    \o <<"V","A","L","U","E","S"," ","(">> \o ToStr(guide.DeviceID) \o <<","," ","'">>
    \o guide.Title \o <<"'",","," ","'">> \o guide.DateCreated \o <<"'",")",";">>

\* the statement of one step
StepInsert(step) ==
    <<"I","N","S","E","R","T"," ","I","N","T","O"," ","S","t","e","p","s"," ","(","G","u","i","d","e","I","D",","," ","S","t","e","p","N","u","m","b","e","r",","," ","D","e","s","c","r","i","p","t","i","o","n",")"," ">> \o <<"\n">>
    \o <<"V","A","L","U","E","S"," ","(">> \o ToStr(step.GuideID) \o <<","," ">> \o ToStr(step.StepNumber)
    \o <<","," ","'">> \o Replace(step.Description, "'", <<"'","'">>) \o <<"'",")",";">>

\* sql_statements: a comment line before the statements of each table
generate_sql_inserts(mapping) ==
    << <<"-","-"," ","D","E","V","I","C","E","S">> \o <<"\n">> >>
    \o [k \in 1..Len(mapping.Devices) |-> DeviceInsert(mapping.Devices[k])]
    \o << <<"\n">> \o <<"-","-"," ","C","O","M","P","O","N","E","N","T","S">> \o <<"\n">> >>
    \o [k \in 1..Len(mapping.Components) |-> ComponentInsert(mapping.Components[k])]
    \o << <<"\n">> \o <<"-","-"," ","G","U","I","D","E","S">> \o <<"\n">> >>
    \o [k \in 1..Len(mapping.Guides) |-> GuideInsert(mapping.Guides[k])]
    \o << <<"\n">> \o <<"-","-"," ","S","T","E","P","S">> \o <<"\n">> >>
    \o [k \in 1..Len(mapping.Steps) |-> StepInsert(mapping.Steps[k])]

(***************************************************************************)
(* EnhancedDataCleaner (enhanced_data_mapper.py): the records are fixed,   *)
(* the statements of Devices, Components and Steps are those of            *)
(* DataCleaner.                                                            *)
(***************************************************************************)
\* s.split(sep)
RECURSIVE Split(_, _)
Split(s, sep) ==
    IF Contains(s, sep)
    THEN LET i == CHOOSE p \in 1..Len(s) :
                      OccursAt(s, sep, p) /\ \A q \in 1..(p - 1) : ~OccursAt(s, sep, q)
         IN  <<SubSeq(s, 1, i - 1)>> \o Split(SubSeq(s, i + Len(sep), Len(s)), sep)
    ELSE <<s>>

\* the values of common_components, in the order of the dict
common_components ==
    << <<"D","i","g","i","t","a","l"," ","I","/","O"," ","P","i","n","s"," ","-"," ","G","e","n","e","r","a","l"," ","p","u","r","p","o","s","e"," ","d","i","g","i","t","a","l"," ","i","n","p","u","t","/","o","u","t","p","u","t">>,
       <<"A","n","a","l","o","g"," ","I","n","p","u","t"," ","P","i","n","s"," ","-"," ","R","e","a","d"," ","a","n","a","l","o","g"," ","s","e","n","s","o","r","s">>,
       <<"5","V"," ","P","o","w","e","r"," ","S","u","p","p","l","y"," ","-"," ","P","r","o","v","i","d","e","s"," ","p","o","w","e","r"," ","t","o"," ","c","o","m","p","o","n","e","n","t","s">>,
       <<"G","r","o","u","n","d"," ","-"," ","C","o","m","m","o","n"," ","r","e","t","u","r","n"," ","p","a","t","h"," ","f","o","r"," ","c","i","r","c","u","i","t","s">>,
       <<"U","S","B"," ","P","o","r","t"," ","-"," ","F","o","r"," ","p","r","o","g","r","a","m","m","i","n","g"," ","a","n","d"," ","p","o","w","e","r">>,
       <<"S","e","r","i","a","l"," ","C","o","m","m","u","n","i","c","a","t","i","o","n"," ","-"," ","F","o","r"," ","d","a","t","a"," ","t","r","a","n","s","f","e","r">>,
       <<"S","P","I"," ","I","n","t","e","r","f","a","c","e"," ","-"," ","S","e","r","i","a","l"," ","P","e","r","i","p","h","e","r","a","l"," ","I","n","t","e","r","f","a","c","e">>,
       <<"I","2","C"," ","I","n","t","e","r","f","a","c","e"," ","-"," ","T","w","o","-","w","i","r","e"," ","c","o","m","m","u","n","i","c","a","t","i","o","n">>,
       <<"B","u","i","l","t","-","i","n"," ","L","E","D"," ","-"," ","C","o","n","n","e","c","t","e","d"," ","t","o"," ","d","i","g","i","t","a","l"," ","p","i","n"," ","1","3">>,
       <<"R","e","s","e","t"," ","B","u","t","t","o","n"," ","-"," ","T","o"," ","r","e","s","e","t"," ","t","h","e"," ","m","i","c","r","o","c","o","n","t","r","o","l","l","e","r">> >>

\* steps_by_guide: the lists under the keys 1, 2, 3
steps_by_guide ==
    << << <<"C","o","n","n","e","c","t"," ","t","h","e"," ","U","S","B"," ","c","a","b","l","e"," ","t","o"," ","y","o","u","r"," ","A","r","d","u","i","n","o"," ","U","N","O"," ","b","o","a","r","d">>,
          <<"D","o","w","n","l","o","a","d"," ","a","n","d"," ","i","n","s","t","a","l","l"," ","t","h","e"," ","A","r","d","u","i","n","o"," ","I","D","E"," ","f","r","o","m"," ","a","r","d","u","i","n","o",".","c","c">>,
          <<"O","p","e","n"," ","t","h","e"," ","A","r","d","u","i","n","o"," ","I","D","E"," ","a","n","d"," ","s","e","l","e","c","t"," ","y","o","u","r"," ","b","o","a","r","d"," ","t","y","p","e">>,
          <<"S","e","l","e","c","t"," ","t","h","e"," ","c","o","r","r","e","c","t"," ","C","O","M"," ","p","o","r","t"," ","f","r","o","m"," ","T","o","o","l","s"," ","m","e","n","u">>,
          <<"L","o","a","d"," ","t","h","e"," ","B","l","i","n","k"," ","e","x","a","m","p","l","e"," ","f","r","o","m"," ","F","i","l","e"," ",">"," ","E","x","a","m","p","l","e","s"," ",">"," ","0","1",".","B","a","s","i","c","s">>,
          <<"C","l","i","c","k"," ","t","h","e"," ","U","p","l","o","a","d"," ","b","u","t","t","o","n"," ","t","o"," ","p","r","o","g","r","a","m"," ","y","o","u","r"," ","b","o","a","r","d">>,
          <<"O","b","s","e","r","v","e"," ","t","h","e"," ","L","E","D"," ","b","l","i","n","k","i","n","g"," ","o","n"," ","t","h","e"," ","b","o","a","r","d">> >>,
       << <<"U","n","d","e","r","s","t","a","n","d"," ","d","i","g","i","t","a","l"," ","p","i","n","s"," ","(","0","-","1","3",")"," ","a","s"," ","I","N","P","U","T"," ","o","r"," ","O","U","T","P","U","T">>,
          <<"U","s","e"," ","p","i","n","M","o","d","e","(",")"," ","t","o"," ","c","o","n","f","i","g","u","r","e"," ","a"," ","p","i","n">>,
          <<"U","s","e"," ","d","i","g","i","t","a","l","W","r","i","t","e","(",")"," ","t","o"," ","s","e","t"," ","H","I","G","H"," ","(","5","V",")"," ","o","r"," ","L","O","W"," ","(","0","V",")">>,
          <<"U","s","e"," ","d","i","g","i","t","a","l","R","e","a","d","(",")"," ","t","o"," ","r","e","a","d"," ","p","i","n"," ","s","t","a","t","e">>,
          <<"C","r","e","a","t","e"," ","a"," ","s","i","m","p","l","e"," ","L","E","D"," ","o","n","/","o","f","f"," ","c","i","r","c","u","i","t">>,
          <<"T","e","s","t"," ","w","i","t","h"," ","a"," ","p","u","s","h","b","u","t","t","o","n"," ","a","s"," ","i","n","p","u","t">>,
          <<"B","u","i","l","d"," ","a"," ","s","i","m","p","l","e"," ","L","E","D"," ","c","o","n","t","r","o","l"," ","w","i","t","h"," ","b","u","t","t","o","n">> >>,
       << <<"C","o","n","n","e","c","t"," ","a","n"," ","a","n","a","l","o","g"," ","s","e","n","s","o","r"," ","t","o"," ","p","i","n"," ","A","0">>,
          <<"U","s","e"," ","a","n","a","l","o","g","R","e","a","d","(",")"," ","t","o"," ","r","e","a","d"," ","t","h","e"," ","s","e","n","s","o","r"," ","v","a","l","u","e"," ","(","0","-","1","0","2","3",")">>,
          <<"M","a","p"," ","s","e","n","s","o","r"," ","v","a","l","u","e","s"," ","t","o"," ","u","s","e","f","u","l"," ","r","a","n","g","e","s">>,
          <<"U","s","e"," ","S","e","r","i","a","l",".","p","r","i","n","t","(",")"," ","t","o"," ","v","i","e","w"," ","t","h","e"," ","v","a","l","u","e","s">>,
          <<"O","p","e","n"," ","S","e","r","i","a","l"," ","M","o","n","i","t","o","r"," ","t","o"," ","s","e","e"," ","d","a","t","a">>,
          <<"C","r","e","a","t","e"," ","a"," ","l","i","g","h","t"," ","s","e","n","s","o","r"," ","a","p","p","l","i","c","a","t","i","o","n">>,
          <<"C","a","l","i","b","r","a","t","e"," ","s","e","n","s","o","r","s"," ","f","o","r"," ","a","c","c","u","r","a","c","y">> >> >>

\* the list _extract_guides extends Guides by
enhanced_guides ==
    << [GuideID |-> 1, DeviceID |-> 1, Title |-> <<"G","e","t","t","i","n","g"," ","S","t","a","r","t","e","d"," ","w","i","t","h"," ","A","r","d","u","i","n","o"," ","U","N","O">>,
        DateCreated |-> Today,
        GuideURL |-> <<"h","t","t","p","s",":","/","/","d","o","c","s",".","a","r","d","u","i","n","o",".","c","c","/","t","u","t","o","r","i","a","l","s","/","u","n","o","-","r","e","v","3","/","g","e","t","t","i","n","g","-","s","t","a","r","t","e","d","/">>],
       [GuideID |-> 2, DeviceID |-> 1, Title |-> <<"D","i","g","i","t","a","l"," ","I","/","O"," ","T","u","t","o","r","i","a","l">>,
        DateCreated |-> Today, GuideURL |-> None],
       [GuideID |-> 3, DeviceID |-> 1, Title |-> <<"A","n","a","l","o","g"," ","I","n","p","u","t"," ","a","n","d"," ","S","e","n","s","o","r","s">>,
        DateCreated |-> Today, GuideURL |-> None] >>

\* the steps _extract_steps appends for the guides from guide_id on
RECURSIVE EnhancedStepsFrom(_, _)
EnhancedStepsFrom(guide_id, step_id) ==
    IF guide_id > Len(steps_by_guide) THEN <<>>
    ELSE LET steps == steps_by_guide[guide_id]
         IN  [step_num \in 1..Len(steps) |->
                 [StepID |-> step_id + step_num - 1,
                  GuideID |-> guide_id,
                  StepNumber |-> step_num,
                  Description |-> steps[step_num]]]
             \o EnhancedStepsFrom(guide_id + 1, step_id + Len(steps))

\* self.schema_mapping after EnhancedDataCleaner.map_to_schema
enhanced_map_to_schema(mapping) ==
    [Devices |-> Append(mapping.Devices,
                        [DeviceID |-> 1, DeviceName |-> <<"A","r","d","u","i","n","o"," ","U","N","O"," ","R","3">>,
                         DeviceType |-> <<"M","i","c","r","o","c","o","n","t","r","o","l","l","e","r"," ","B","o","a","r","d">>, ImageURL |-> None]),
     Components |-> mapping.Components \o
         [component_id \in 1..Len(common_components) |->
             LET comp_desc == common_components[component_id]
             IN  [ComponentID |-> component_id,
                  DeviceID |-> 1,
                  ComponentName |-> Split(comp_desc, <<" ","-"," ">>)[1],
                  Description |-> IF Contains(comp_desc, <<" ","-"," ">>)
                                  THEN Split(comp_desc, <<" ","-"," ">>)[2]
                                  ELSE comp_desc]],
     Guides |-> mapping.Guides \o enhanced_guides,
     Steps |-> mapping.Steps \o EnhancedStepsFrom(1, 1)]

\* the statement of one guide
EnhancedGuideInsert(guide) ==
    <<"I","N","S","E","R","T"," ","I","N","T","O"," ","G","u","i","d","e","s"," ","(","D","e","v","i","c","e","I","D",","," ","T","i","t","l","e",","," ","D","a","t","e","C","r","e","a","t","e","d",","," ","G","u","i","d","e","U","R","L",")"," ">> \o <<"\n">>
    \o <<"V","A","L","U","E","S"," ","(">> \o ToStr(guide.DeviceID) \o <<","," ","'">>
    \o guide.Title \o <<"'",","," ","'">> \o guide.DateCreated \o <<"'",","," ">>
    \o (IF Truthy(guide.GuideURL) THEN <<"'">> \o guide.GuideURL \o <<"'">> ELSE <<"N","U","L","L">>)
    \o <<")",";">>

\* sql_statements of EnhancedDataCleaner.generate_sql_inserts
enhanced_generate_sql_inserts(mapping) ==
    << <<"-","-"," ","=","=","=","=","=","=","=","=","=","=","=","=","=","=","=","=","=","=","=","="," ","D","E","V","I","C","E","S"," ","=","=","=","=","=","=","=","=","=","=","=","=","=","=","=","=","=","=","=","=">> \o <<"\n">> >>
    \o [k \in 1..Len(mapping.Devices) |-> DeviceInsert(mapping.Devices[k])]
    \o << <<"\n">> \o <<"-","-"," ","=","=","=","=","=","=","=","=","=","=","=","=","=","=","=","=","=","=","=","="," ","C","O","M","P","O","N","E","N","T","S"," ","=","=","=","=","=","=","=","=","=","=","=","=","=","=","=","=","=","=","=","=">>
          \o <<"\n">> >>
    \o [k \in 1..Len(mapping.Components) |-> ComponentInsert(mapping.Components[k])]
    \o << <<"\n">> \o <<"-","-"," ","=","=","=","=","=","=","=","=","=","=","=","=","=","=","=","=","=","=","=","="," ","G","U","I","D","E","S"," ","=","=","=","=","=","=","=","=","=","=","=","=","=","=","=","=","=","=","=","=">>
          \o <<"\n">> >>
    \o [k \in 1..Len(mapping.Guides) |-> EnhancedGuideInsert(mapping.Guides[k])]
    \o << <<"\n">> \o <<"-","-"," ","=","=","=","=","=","=","=","=","=","=","=","=","=","=","=","=","=","=","=","="," ","S","T","E","P","S"," ","=","=","=","=","=","=","=","=","=","=","=","=","=","=","=","=","=","=","=","=">>
          \o <<"\n">> >>
    \o [k \in 1..Len(mapping.Steps) |-> StepInsert(mapping.Steps[k])]

(***************************************************************************)
(* The cleaned data the cleaners map.                                     *)
(***************************************************************************)
\* column names as clean_data leaves them: trimmed, lower case, underscores
Headers ==
    { << <<"d","e","v","i","c","e","_","n","a","m","e">> >>,
      << <<"d","e","v","i","c","e","_","n","a","m","e">>, <<"b","o","a","r","d","_","r","e","v">> >>,
      << <<"n","o","t","e","s">> >>,
      << <<"g","u","i","d","e","_","t","i","t","l","e">>, <<"s","t","e","p","_","d","e","s","c","r","i","p","t","i","o","n">> >>,
      << <<"i","n","s","t","r","u","c","t","i","o","n">> >>,
      << <<"c","o","m","p","o","n","e","n","t","_","n","a","m","e">>, <<"t","y","p","e">> >>,
      << <<"d","e","v","i","c","e","_","n","a","m","e">>, <<"p","i","n">>, <<"v","o","l","t","a","g","e">> >> }

CellValues == { <<"U","n","o"," ","R","3">>, <<"O","'","R","e","i","l","l","y","'","s"," ","g","u","i","d","e">> }

\* the frames clean_data can leave under a header: at most n rows, no row twice
CleanFrames(columns, n) ==
    {DataFrame(columns, RangeIndex(Len(rows)), rows) :
        rows \in {rs \in UNION {[1..m -> [1..Len(columns) -> CellValues]] : m \in 0..n} :
                     \A i, j \in 1..Len(rs) : i < j => rs[i] # rs[j]}}

\* arduino_uno_raw.csv after clean_data
CsvFrames == UNION {CleanFrames(columns, MaxRows) : columns \in Headers}

\* arduino_uno_raw.xlsx after clean_data: a sheet of one row or none, with the
\* columns of the csv file or with other columns
SheetFrames(csv) ==
    CleanFrames(csv.columns, 1)
    \cup {DataFrame(<< <<"d","e","v","i","c","e","_","n","a","m","e">> >>, RangeIndex(1), << << <<"U","n","o"," ","R","3">> >> >>),
          DataFrame(<< <<"s","t","e","p">> >>, RangeIndex(1), << << <<"O","'","R","e","i","l","l","y","'","s"," ","g","u","i","d","e">> >> >>)}

\* self.data after load_raw_data and clean_data: no file, the csv file, or both
DataSets ==
    {<<>>} \cup {<<csv>> : csv \in CsvFrames}
    \cup UNION {{<<csv, xlsx>> : xlsx \in SheetFrames(csv)} : csv \in CsvFrames}

\* the same for an EnhancedDataCleaner, which tells only empty data from loaded
EnhancedDataSets ==
    {<<>>} \cup {<<csv>> : csv \in CleanFrames(<< <<"n","o","t","e","s">> >>, 1)}

(***************************************************************************)
(* The cleaners: construction, load_raw_data and clean_data, then calls.   *)
(***************************************************************************)
InitMapper ==
    /\ InitTextIdle
    /\ InitImageIdle
    /\ InitOrganizeIdle
    /\ InitFilesIdle
    /\ InitMainIdle
    /\ InitDbIdle
    /\ cleaner \in {"DataCleaner", "EnhancedDataCleaner"}
    /\ data \in (IF cleaner = "DataCleaner" THEN DataSets ELSE EnhancedDataSets)
    /\ schema_mapping = NewSchemaMapping
    /\ m_op = "new"
    /\ m_calls = 0
    /\ sql_statements = <<>>
    /\ m_sql = <<>>

\* map_to_schema()
MapToSchema ==
    /\ m_calls < MaxCalls
    /\ data # <<>>
    /\ schema_mapping' = (IF cleaner = "DataCleaner"
                          THEN map_to_schema(data, schema_mapping)
                          ELSE enhanced_map_to_schema(schema_mapping))
    /\ m_op' = "map_to_schema"
    /\ m_calls' = m_calls + 1
    /\ sql_statements' = <<>>
    /\ m_sql' = <<>>
    /\ UNCHANGED <<cleaner, data, notMap>>

\* map_to_schema() with nothing loaded: pd.concat([]) raises ValueError
MapToSchemaRaises ==
    /\ m_calls < MaxCalls
    /\ data = <<>>
    /\ m_op' = "ValueError"
    /\ m_calls' = m_calls + 1
    /\ sql_statements' = <<>>
    /\ m_sql' = <<>>
    /\ UNCHANGED <<cleaner, data, schema_mapping, notMap>>

\* generate_sql_inserts()
GenerateSqlInserts ==
    /\ m_op # "generate_sql_inserts"
    /\ \E statements \in {IF cleaner = "DataCleaner"
                            THEN generate_sql_inserts(schema_mapping)
                            ELSE enhanced_generate_sql_inserts(schema_mapping)} :
          /\ sql_statements' = statements
          /\ m_sql' = Join(<<"\n">>, statements)
    /\ m_op' = "generate_sql_inserts"
    /\ UNCHANGED <<cleaner, data, schema_mapping, m_calls, notMap>>

NextMapper ==
    \/ MapToSchema
    \/ MapToSchemaRaises
    \/ GenerateSqlInserts

SpecMapper == InitMapper /\ [][NextMapper]_vars

(***************************************************************************)
(* LLMClassifier.process_data_file and DataComparer (comparison_tool.py):  *)
(* the JSON files they read and write.  A JSON object is a record with the *)
(* field kind = "dict" besides its keys, a JSON string that is an item of  *)
(* a list is a record of kind "str".                                       *)
(***************************************************************************)
\* a key a dict of the raw data does not have
Missing == <<"Missing">>

\* a dict of the raw data with its snippet, title and description
RawDict(snippet, title, description) ==
    [kind |-> "dict", snippet |-> snippet, title |-> title,
     description |-> description, value |-> <<>>]

\* an item of the raw data that is a string, and one that is a number
RawStr(value) ==
    [kind |-> "str", snippet |-> Missing, title |-> Missing,
     description |-> Missing, value |-> value]
RawNumber(value) ==
    [kind |-> "number", snippet |-> Missing, title |-> Missing,
     description |-> Missing, value |-> value]

\* test_data of process_data_file
test_data ==
    << RawDict(<<"P","i","n","o","u","t"," ","d","i","a","g","r","a","m"," ","a","n","d"," ","p","i","n"," ","f","u","n","c","t","i","o","n","s"," ","f","o","r"," ","A","r","d","u","i","n","o"," ","U","n","o">>,
               <<"A","r","d","u","i","n","o"," ","U","n","o"," ","G","u","i","d","e">>, Missing),
       RawDict(<<"H","o","w"," ","t","o"," ","p","r","o","g","r","a","m"," ","A","r","d","u","i","n","o"," ","t","o"," ","m","a","k","e"," ","L","E","D"," ","b","l","i","n","k"," ","u","s","i","n","g"," ","d","i","g","i","t","a","l","W","r","i","t","e">>,
               <<"L","E","D"," ","B","l","i","n","k"," ","C","o","d","e">>, Missing) >>

\* text as the loop of process_data_file takes it from an item
TextOf(item) ==
    IF item.kind = "dict"
    THEN IF item.snippet # Missing /\ Truthy(item.snippet) THEN item.snippet
         ELSE IF item.title # Missing /\ Truthy(item.title) THEN item.title
         ELSE IF item.description # Missing THEN item.description
         ELSE <<>>
    ELSE IF item.kind = "str" THEN item.value
    ELSE <<>>

\* round(confidence, 2); no confidence of the classifier lies halfway between
\* two hundredths
Round2(confidence) ==
    Frac((200 * confidence.num + confidence.den) \div (2 * confidence.den), 100)

\* text[:100] + "..." if len(text) > 100 else text
TextPreview(text) ==
    IF Len(text) > 100 THEN SubSeq(text, 1, 100) \o <<".",".",".">> ELSE text

\* "openai" if self.use_openai else "keyword_based"
ClassificationMethod(text, outcome) ==
    IF use_openai THEN "openai" ELSE "keyword_based"

\* classified_item for the item at position idx + 1 of data
ClassifiedItem(id, item, outcome) ==
    LET text == TextOf(item)
        r == classify_text(text, outcome)
    IN  [kind |-> "dict",
         id |-> id,
         original |-> item,
         text_preview |-> TextPreview(text),
         category |-> r.category,
         confidence |-> Round2(r.confidence),
         source |-> "perplexity_search",
         classification_method |-> ClassificationMethod(text, outcome)]

\* len(text) raises TypeError for the text None of "description": null
PreviewRaises(item) == TextOf(item) = None

\* what the service may do for the items of data, one outcome for each item
ServiceOutcomes ==
    {o \in Outcomes : o.lead = 0 /\ (o.kind = "raise" \/ o.body = "Pin Definitions")}

OutcomesFor(items) ==
    {outs \in [1..Len(items) -> ServiceOutcomes \cup {NoOutcome}] :
        \A k \in 1..Len(items) :
            (outs[k] = NoOutcome)
                <=> \/ ~InvokesService(TextOf(items[k]))
                    \/ \E j \in 1..(k - 1) : PreviewRaises(items[j])}

\* sample_scraper_data of create_sample_scraper_data
sample_scraper_data ==
    << [kind |-> "dict", component |-> "Arduino Uno", type |-> "board",
        description |-> "The most common Arduino board with 14 digital I/O pins and 6 analog inputs",
        category |-> "Pin Definitions", source |-> "scraper"],
       [kind |-> "dict", component |-> "LED Blink Tutorial", type |-> "tutorial",
        description |-> "Learn how to make an LED blink with Arduino programming using digitalWrite function",
        category |-> "Programming Instructions", source |-> "scraper"],
       [kind |-> "dict", component |-> "Resistor", type |-> "component",
        description |-> "Electronic component used to limit current in circuits, essential for protecting LEDs",
        category |-> "Component Descriptions", source |-> "scraper"],
       [kind |-> "dict", component |-> "Arduino Not Detected Fix", type |-> "troubleshooting",
        description |-> "Solutions for when Arduino is not detected by computer: check drivers, USB cable, and port selection",
        category |-> "Troubleshooting Tips", source |-> "scraper"] >>

\* llm_data as load_or_create_data makes it up
sample_llm_data ==
    << [kind |-> "dict", id |-> 1,
        original |-> [kind |-> "dict", title |-> "Arduino Pinout Guide",
                      snippet |-> "Complete guide to Arduino pins and their functions"],
        category |-> "Pin Definitions", source |-> "perplexity_search"],
       [kind |-> "dict", id |-> 2,
        original |-> [kind |-> "dict", title |-> "How to Program Arduino",
                      snippet |-> "Step by step programming tutorial for beginners"],
        category |-> "Programming Instructions", source |-> "perplexity_search"],
       [kind |-> "dict", id |-> 3,
        original |-> [kind |-> "dict", title |-> "Arduino Components List",
                      snippet |-> "List of essential Arduino components and sensors for projects"],
        category |-> "Component Descriptions", source |-> "perplexity_search"] >>

\* the data load_or_create_data returns for a path: the content of the file,
\* or the made-up data if there is no file
LoadOrCreate(file, sample) == IF file.exists THEN file.content ELSE sample

\* the file at the path afterwards: the made-up data is written to it
AfterLoadOrCreate(file, sample) == IF file.exists THEN file ELSE JsonFile(sample)

\* item.get("category", "Unknown") of each dict of items, in their order
RECURSIVE CategoriesOf(_)
CategoriesOf(items) ==
    IF items = <<>> THEN <<>>
    ELSE (IF Head(items).kind = "dict"
          THEN <<IF "category" \in DOMAIN Head(items) THEN Head(items).category
                 ELSE "Unknown">>
          ELSE <<>>)
         \o CategoriesOf(Tail(items))

\* set(categories)
SetOf(cats) == {cats[k] : k \in 1..Len(cats)}

\* dict(Counter(categories))
CounterOf(cats) ==
    [cat \in SetOf(cats) |-> Cardinality({k \in 1..Len(cats) : cats[k] = cat})]

\* f"{(count/total)*100:.1f}%": the tenths of a percent nearest to the
\* quotient, with one digit after the point
Percent(count, total) ==
    LET tenths == (2000 * count + total) \div (2 * total)
    IN  ToStr(tenths \div 10) \o <<".">> \o ToStr(tenths % 10) \o <<"%">>

\* the entry of comparison for one source
SourceSummary(items) ==
    LET counts == CounterOf(CategoriesOf(items))
    IN  [total_items |-> Len(items),
         categories |-> counts,
         category_distribution |->
             [cat \in DOMAIN counts |->
                 Percent(counts[cat], Len(items))]]

\* (mutant) unique_to_scraper holds every category of the scraper data
compare_categories_all(scraper_data, llm_data) ==
    LET scraper_categories == CategoriesOf(scraper_data)
        llm_categories == CategoriesOf(llm_data)
    IN  [scraper_data |-> SourceSummary(scraper_data),
         llm_data |-> SourceSummary(llm_data),
         comparison |->
             [common_categories |-> SetOf(scraper_categories) \cap SetOf(llm_categories),
              unique_to_scraper |-> SetOf(scraper_categories),
              unique_to_llm |-> SetOf(llm_categories) \ SetOf(scraper_categories),
              total_overlap |->
                  Cardinality(SetOf(scraper_categories) \cap SetOf(llm_categories))]]

\* comparison as compare_categories builds it; list(set) has the elements of
\* the set in an order the code does not fix, so the three lists are kept as
\* sets
compare_categories(scraper_data, llm_data) ==
    LET scraper_categories == CategoriesOf(scraper_data)
        llm_categories == CategoriesOf(llm_data)
    IN  [scraper_data |-> SourceSummary(scraper_data),
         llm_data |-> SourceSummary(llm_data),
         comparison |->
             [common_categories |-> SetOf(scraper_categories) \cap SetOf(llm_categories),
              unique_to_scraper |-> SetOf(scraper_categories) \ SetOf(llm_categories),
              unique_to_llm |-> SetOf(llm_categories) \ SetOf(scraper_categories),
              total_overlap |->
                  Cardinality(SetOf(scraper_categories) \cap SetOf(llm_categories))]]

(***************************************************************************)
(* The files process_data_file and compare_categories find.                *)
(***************************************************************************)
\* the longest list of the scraper file that is built from ScraperItems
MaxItems == 2

RawItems ==
    { RawDict(<<"p","i","n","o","u","t"," ","d","i","a","g","r","a","m"," ","g","p","i","o"," ","a","n","a","l","o","g">>, <<"P","i","n","s">>, Missing),
      RawDict(<<>>, <<"s","k","e","t","c","h"," ","c","o","d","e"," ","f","o","r"," ","t","h","e"," ","b","l","i","n","k">>, Missing),
      RawDict(Missing, Missing, <<"x","y","z","z","y"," ","p","l","u","g","h"," ","a","n","d"," ","s","o"," ","o","n">>),
      RawDict(Missing, Missing, None),
      RawStr(<<"p","i","n"," ">>),
      RawNumber(<<"7">>) }

RawFiles ==
    {Absent, JsonFile(<<>>)}
    \cup {JsonFile(<<item>>) : item \in RawItems}
    \cup {JsonFile(<<RawDict(<<"p","i","n","o","u","t"," ","d","i","a","g","r","a","m"," ","g","p","i","o"," ","a","n","a","l","o","g">>, <<"P","i","n","s">>, Missing),
                     RawStr(<<"G","P","I","O"," ","s","e","n","s","o","r"," ","w","i","r","i","n","g">>)>>),
          JsonFile(<<RawDict(Missing, Missing, None),
                     RawDict(<<"p","i","n","o","u","t"," ","d","i","a","g","r","a","m"," ","g","p","i","o"," ","a","n","a","l","o","g">>, <<"P","i","n","s">>, Missing)>>)}

\* a record of the scraper or of the classified data with its category
Entry(category) == [kind |-> "dict", component |-> "LED", category |-> category]

ScraperItems ==
    { Entry("Pin Definitions"),
      Entry("Troubleshooting Tips"),
      [kind |-> "dict", component |-> "LED"],
      [kind |-> "str", value |-> "a note"] }

\* sources with the categories {A: 2, B: 1} and {A: 1, C: 3}
ExampleFirst ==
    JsonFile(<<Entry("Pin Definitions"), Entry("Pin Definitions"),
               Entry("Troubleshooting Tips")>>)
ExampleSecond ==
    JsonFile(<<Entry("Pin Definitions"), Entry("Other"), Entry("Other"),
               Entry("Other")>>)

ScraperFiles ==
    {Absent, ExampleFirst}
    \cup {JsonFile(items) : items \in UNION {[1..n -> ScraperItems] : n \in 0..MaxItems}}

LlmFiles ==
    {Absent, ExampleSecond,
     JsonFile(<<[kind |-> "str", value |-> "a note"], Entry("Pin Definitions")>>)}

(***************************************************************************)
(* process_data_file of a classifier and compare_categories of a           *)
(* DataComparer, called in any order on the same data directory.           *)
(***************************************************************************)
\* LLMClassifier.__init__ as in InitText; the files are as they were left
InitFiles ==
    \E u \in BOOLEAN, key \in ApiKeys, lib_installed \in BOOLEAN :
        /\ api_key = key
        /\ IF u /\ Truthy(key)
           THEN IF lib_installed
                THEN use_openai = u /\ openai = OpenAIModule
                ELSE use_openai = FALSE /\ openai = None
           ELSE use_openai = u /\ openai = None
        /\ t_op = "new"
        /\ t_text = None
        /\ t_outcome = NoOutcome
        /\ t_invoked = FALSE
        /\ t_scores = <<>>
        /\ t_result = <<>>
        /\ InitImageIdle
        /\ InitOrganizeIdle
        /\ InitMapperIdle
        /\ InitMainIdle
        /\ InitDbIdle
        /\ raw_file \in RawFiles
        /\ scraper_file \in ScraperFiles
        /\ llm_file \in LlmFiles
        /\ scraper_file \in {Absent, ExampleFirst} \/ raw_file = JsonFile(<<>>)
        /\ comparison_file = Absent
        /\ f_op = "new"
        /\ f_result = <<>>
        /\ f_outcomes = <<>>
        /\ f_created = {}

\* process_data_file(input_filename) with the default output_filename: every
\* item is classified and the list is written to llm_classified.json
ProcessDataFile ==
    \E items \in {LoadOrCreate(raw_file, test_data)} :
        /\ \A k \in 1..Len(items) : ~PreviewRaises(items[k])
        /\ raw_file' = AfterLoadOrCreate(raw_file, test_data)
        /\ f_created' = IF raw_file.exists THEN {} ELSE {"raw"}
        /\ \E outs \in OutcomesFor(items) :
              /\ f_outcomes' = outs
              /\ llm_file' = JsonFile([k \in 1..Len(items) |->
                                          ClassifiedItem(k, items[k], outs[k])])
        /\ f_op' = "process_data_file"
        /\ f_result' = [output_path |-> "data/processed/llm_classified.json"]
        /\ UNCHANGED <<scraper_file, comparison_file, use_openai, api_key, openai,
                       notFiles>>

\* process_data_file on data with "description": null: len(text) raises
\* TypeError before anything is written to the output file
ProcessDataFileRaises ==
    /\ raw_file.exists
    /\ \E k \in 1..Len(raw_file.content) : PreviewRaises(raw_file.content[k])
    /\ \E outs \in OutcomesFor(raw_file.content) : f_outcomes' = outs
    /\ f_created' = {}
    /\ f_op' = "TypeError"
    /\ f_result' = <<>>
    /\ UNCHANGED <<raw_file, llm_file, scraper_file, comparison_file, use_openai,
                   api_key, openai, notFiles>>

\* compare_categories(): load_or_create_data, the comparison, its file
CompareCategories ==
    \E scraper_data \in {LoadOrCreate(scraper_file, sample_scraper_data)},
       llm_data \in {LoadOrCreate(llm_file, sample_llm_data)} :
        \E comparison \in {compare_categories(scraper_data, llm_data)} :
            /\ scraper_file' = AfterLoadOrCreate(scraper_file, sample_scraper_data)
            /\ llm_file' = AfterLoadOrCreate(llm_file, sample_llm_data)
            /\ f_created' = (IF scraper_file.exists THEN {} ELSE {"scraper"})
                            \cup (IF llm_file.exists THEN {} ELSE {"llm"})
            /\ comparison_file' = JsonFile(comparison)
            /\ f_op' = "compare_categories"
            /\ f_result' = comparison
            /\ f_outcomes' = <<>>
            /\ UNCHANGED <<raw_file, use_openai, api_key, openai, notFiles>>

NextFiles ==
    \/ ProcessDataFile
    \/ ProcessDataFileRaises
    \/ CompareCategories

SpecFiles == InitFiles /\ [][NextFiles]_vars

(***************************************************************************)
(* main of the experimental pipeline (archive/main_experimental.py): the   *)
(* five stage functions, each a try block around the stage, then the       *)
(* final report.  Whether the body of a stage completes or raises depends  *)
(* on the network, the files and the modules that can be imported.         *)
(***************************************************************************)
\* the names of pipelines, in the order of the list
pipelines ==
    <<"Image Collection", "Image Classification", "Data Search",
      "Text Classification", "Comparison Analysis">>

\* the file that tells generate_final_report that a stage has run: the file
\* the stage writes last
StageFile ==
    <<"image_sources/image_report.json", "image_sources/classification_report.json",
      "raw/search_data.json", "processed/classified_text.json",
      "processed/comparison_results.json">>

\* the names of the stages in components of the final report
ComponentNames ==
    <<"image_collection", "image_classification", "data_search",
      "text_classification", "comparison_analysis">>

\* (mutant) a stage function without its except clause: the exception leaves it
StageReturnUncaught(outcome) == IF outcome = "completes" THEN "True" ELSE "raise"

\* what a stage function returns: True at the end of the try block, False
\* from `except Exception'
StageReturn(outcome) == IF outcome = "completes" THEN "True" ELSE "False"

\* report["components"] of generate_final_report
ReportComponents(files) ==
    [c \in {ComponentNames[i] : i \in 1..5} |->
        IF StageFile[CHOOSE i \in 1..5 : ComponentNames[i] = c] \in files
        THEN "OK" ELSE "MISSING"]

\* the keys of report["statistics"]
ReportStatistics(files) ==
    (IF StageFile[1] \in files THEN {"total_images"} ELSE {})
    \cup (IF StageFile[2] \in files THEN {"classified_images"} ELSE {})

\* main is called in a data directory that earlier runs may have left files in
InitMain ==
    /\ InitTextIdle
    /\ InitImageIdle
    /\ InitOrganizeIdle
    /\ InitMapperIdle
    /\ InitFilesIdle
    /\ InitDbIdle
    /\ p_pc = "idle"
    /\ p_files \in SUBSET {StageFile[i] : i \in 1..5}
    /\ p_results = <<>>
    /\ p_runs = <<0, 0, 0, 0, 0>>
    /\ p_outcomes = <<>>
    /\ p_report = <<>>

\* main up to the loop: ensure_directories, results = []
MainStart ==
    /\ p_pc = "idle"
    /\ p_pc' = "stages"
    /\ p_results' = <<>>
    /\ UNCHANGED <<p_files, p_runs, p_outcomes, p_report, notMain>>

\* one turn of the loop: the stage function is called and its result is
\* appended.  A body that completes has written its file; one that raises may
\* have written it before.
RunStage(outcome, wrote) ==
    /\ p_pc = "stages"
    /\ outcome = "completes" => wrote
    /\ LET i == Len(p_results) + 1
           success == StageReturn(outcome)
       IN  /\ p_runs' = [p_runs EXCEPT ![i] = @ + 1]
           /\ p_outcomes' = Append(p_outcomes, outcome)
           /\ p_files' = IF wrote THEN p_files \cup {StageFile[i]} ELSE p_files
           /\ IF success = "raise"
              THEN p_pc' = "aborted" /\ p_results' = p_results
              ELSE /\ p_results' = Append(p_results,
                                          [name |-> pipelines[i],
                                           success |-> success = "True"])
                   /\ p_pc' = IF i = Len(pipelines) THEN "report" ELSE "stages"
    /\ UNCHANGED <<p_report, notMain>>

\* generate_final_report and the summary main prints after it
GenerateFinalReport ==
    /\ p_pc = "report"
    /\ p_report' = [components |-> ReportComponents(p_files),
                    statistics |-> ReportStatistics(p_files),
                    files_generated |-> p_files]
    /\ p_files' = p_files \cup {"final_report.json"}
    /\ p_pc' = "done"
    /\ UNCHANGED <<p_results, p_runs, p_outcomes, notMain>>

NextMain ==
    \/ MainStart
    \/ \E outcome \in {"completes", "raises"}, wrote \in BOOLEAN :
           RunStage(outcome, wrote)
    \/ GenerateFinalReport

\* main is sequential code: it goes on until it returns
SpecMain == InitMain /\ [][NextMain]_vars /\ WF_vars(NextMain)

(***************************************************************************)
(* DatabaseHandler.insert_scraped_data (Phase2_Runtime/database_handler.py)*)
(* on a PostgreSQL connection: every execute of a call belongs to one      *)
(* transaction, which commit makes durable and rollback undoes.  A         *)
(* statement of the transaction sees the rows the transaction has written. *)
(***************************************************************************)
\* item.get(key, default)
Get(item, key, default) == IF key \in DOMAIN item THEN item[key] ELSE default

\* the tables and what the call has done so far: txn.added is devices_added
Transaction(tables, serial) ==
    [Devices |-> tables.Devices, Components |-> tables.Components,
     Guides |-> tables.Guides, serial |-> serial, added |-> {}]

\* fetchone() after SELECT DeviceID FROM Devices WHERE DeviceName = %s: the
\* first row with the name, None if there is none
SelectDevice(txn, device_name) ==
    LET rows == {k \in 1..Len(txn.Devices) : txn.Devices[k].DeviceName = device_name}
    IN  IF rows = {} THEN None
        ELSE <<"row", txn.Devices[CHOOSE k \in rows : \A j \in rows : k <= j].DeviceID>>

\* the branch `if not existing and device_name not in devices_added': the
\* INSERT INTO Devices with the DeviceID the database returns for the row
InsertDevice(txn, item, device_name, existing) ==
    IF existing = None /\ device_name \notin txn.added
    THEN [txn EXCEPT !.Devices = Append(@, [DeviceID |-> txn.serial + 1,
                                            DeviceName |-> device_name,
                                            DeviceType |-> Get(item, "type", "board"),
                                            ImageURL |-> Get(item, "image", "")]),
                     !.serial = @ + 1,
                     !.added = @ \cup {device_name}]
    ELSE txn

\* one turn of the loop over data for an item that is a dict
InsertItem(txn, item) ==
    LET device_name == Get(item, "component", <<"U","n","k","n","o","w","n">>)
        existing == SelectDevice(txn, device_name)
        with_device == InsertDevice(txn, item, device_name, existing)
        device_id == IF with_device # txn THEN with_device.serial ELSE existing[2]
    IN  IF with_device = txn /\ existing = None
        THEN txn
        ELSE [with_device EXCEPT
                 !.Components =
                     IF Get(item, "type", "") = "component"
                     THEN Append(@, [DeviceID |-> device_id,
                                     ComponentName |-> device_name,
                                     Description |-> Get(item, "description", "")])
                     ELSE @,
                 !.Guides = Append(@, [DeviceID |-> device_id,
                                       Title |-> <<"G","u","i","d","e"," ","f","o","r"," ">> \o device_name,
                                       GuideURL |-> Get(item, "link", "")])]

\* the loop over the first n items of scraped
RECURSIVE InsertItems(_, _, _)
InsertItems(txn, items, n) ==
    IF n = 0 THEN txn ELSE InsertItem(InsertItems(txn, items, n - 1), items[n])

\* item.get raises AttributeError for an item that is not a dict
GetRaises(item) == item.kind # "dict"

\* the tables after conn.commit(): what the transaction wrote
Commit(tables, txn) ==
    [Devices |-> txn.Devices, Components |-> txn.Components, Guides |-> txn.Guides]

\* (mutant) a rollback that keeps what the transaction wrote
RollbackKeeps(tables, txn) ==
    [Devices |-> txn.Devices, Components |-> txn.Components, Guides |-> txn.Guides]

\* the tables after conn.rollback(): as they were before the transaction
Rollback(tables, txn) == tables

(***************************************************************************)
(* The files insert_scraped_data is called with.                           *)
(***************************************************************************)
ArduinoUno ==
    [kind |-> "dict", component |-> <<"A","r","d","u","i","n","o"," ","U","n","o">>, type |-> "board",
     link |-> "https://docs.arduino.cc/hardware/uno-rev3"]
Resistor ==
    [kind |-> "dict", component |-> <<"R","e","s","i","s","t","o","r">>, type |-> "component",
     description |-> "limits the current"]
Nameless == [kind |-> "dict", type |-> "component"]
Note == [kind |-> "str", value |-> "a note"]

ScrapedFiles ==
    { <<>>, <<ArduinoUno>>, <<ArduinoUno, ArduinoUno>>, <<Resistor, ArduinoUno>>,
      <<Nameless>>, <<Resistor, Note>>, <<Note>>, <<Nameless, Resistor>> }

\* Devices rows that were in the table before the handler was used
OldDevices ==
    { <<>>,
      <<[DeviceID |-> 1, DeviceName |-> <<"A","r","d","u","i","n","o"," ","U","n","o">>, DeviceType |-> "board",
         ImageURL |-> ""]>> }

(***************************************************************************)
(* DatabaseHandler: construction and connect, then insert_scraped_data.    *)
(***************************************************************************)
\* connect has returned True, or it has failed and self.conn is None
InitDb ==
    /\ InitTextIdle
    /\ InitImageIdle
    /\ InitOrganizeIdle
    /\ InitMapperIdle
    /\ InitFilesIdle
    /\ InitMainIdle
    /\ conn \in {None, <<"connection">>}
    /\ \E devices \in OldDevices :
          /\ db = [Devices |-> devices, Components |-> <<>>, Guides |-> <<>>]
          /\ d_serial = Len(devices)
    /\ d_op = "new"
    /\ d_calls = 0
    /\ d_data = <<>>
    /\ d_inserted = {}

\* insert_scraped_data(json_file_path) returns True: every item was processed
\* and the transaction was committed
InsertScrapedData(scraped) ==
    /\ d_calls < MaxCalls
    /\ conn # None
    /\ \A k \in 1..Len(scraped) : ~GetRaises(scraped[k])
    /\ \E txn \in {InsertItems(Transaction(db, d_serial), scraped, Len(scraped))} :
          /\ db' = Commit(db, txn)
          /\ d_serial' = txn.serial
          /\ d_inserted' = d_inserted \cup ((d_serial + 1)..txn.serial)
    /\ d_op' = "True"
    /\ d_data' = scraped
    /\ d_calls' = d_calls + 1
    /\ UNCHANGED <<conn, notDb>>

\* insert_scraped_data returns False: the file cannot be opened or parsed
\* (failed = 0), item.get or an execute for the item at position failed
\* raises, or commit does (failed = len(data) + 1).  The statements before
\* the failure were executed and are rolled back; the DeviceIDs they drew
\* are not handed out again.
InsertScrapedDataFails(scraped, failed) ==
    /\ d_calls < MaxCalls
    /\ conn # None
    /\ failed \in 0..(Len(scraped) + 1)
    /\ \A k \in 1..Len(scraped) : GetRaises(scraped[k]) => failed <= k /\ failed # 0
    /\ \E txn \in {InsertItems(Transaction(db, d_serial), scraped,
                               IF failed = 0 THEN 0
                               ELSE IF failed > Len(scraped) THEN Len(scraped)
                               ELSE failed - 1)} :
          /\ db' = Rollback(db, txn)
          /\ d_serial' = txn.serial
    /\ d_op' = "False"
    /\ d_data' = IF failed = 0 THEN <<>> ELSE scraped
    /\ d_calls' = d_calls + 1
    /\ UNCHANGED <<conn, d_inserted, notDb>>

\* insert_scraped_data without a connection: self.cursor.execute, or
\* self.conn.commit() for empty data, raises AttributeError; nothing was
\* executed and there is nothing to roll back
InsertScrapedDataNoConnection(scraped) ==
    /\ d_calls < MaxCalls
    /\ conn = None
    /\ d_op' = "False"
    /\ d_data' = scraped
    /\ d_calls' = d_calls + 1
    /\ UNCHANGED <<conn, db, d_serial, d_inserted, notDb>>

NextDb ==
    \/ \E scraped \in ScrapedFiles : InsertScrapedData(scraped)
    \/ \E scraped \in ScrapedFiles, failed \in 0..3 : InsertScrapedDataFails(scraped, failed)
    \/ \E scraped \in ScrapedFiles : InsertScrapedDataNoConnection(scraped)

SpecDb == InitDb /\ [][NextDb]_vars

(***************************************************************************)
(* Properties of LLMClassifier, checked under SpecText.                    *)
(***************************************************************************)
Other0 == [category |-> "Other", confidence |-> Zero]

\* the keywords of the k-th category that match text_lower as whole words
WordHits(text_lower, k) ==
    {i \in 1..Len(keyword_categories[k].keywords) :
        WordMatch(text_lower, keyword_categories[k].keywords[i])}

\* the keywords of the k-th category that occur in text_lower
SubstringHits(text_lower, k) ==
    {i \in 1..Len(keyword_categories[k].keywords) :
        Contains(text_lower, keyword_categories[k].keywords[i])}

\* the score of the k-th category: 2 per whole-word keyword, 1 per keyword that
\* occurs only inside a longer word
ExpectedScore(text, k) ==
    LET text_lower == Lower(text)
        words == WordHits(text_lower, k)
    IN  2 * Cardinality(words) + Cardinality(SubstringHits(text_lower, k) \ words)

\* the four scores of a text
ExpectedScores(text) == [k \in 1..4 |-> ExpectedScore(text, k)]

KeywordCalled == t_op = "classify_with_keywords" /\ Truthy(t_text)

\* C1: classify_text returns exactly ("Other", 0.0) for every text whose trimmed
\* length is below 10 (empty and None included), with use_openai set or not, and
\* without calling the ChatCompletion service.
C1_ShortTextIsOther ==
    (t_op = "classify_text" /\ (~Truthy(t_text) \/ Len(Strip(t_text)) < 10)) =>
        /\ t_result = Other0
        /\ ~t_invoked

\* a text of 10 characters or more that is short only once trimmed, given to a
\* classifier that delegates
C1_Witness ==
    /\ t_op = "classify_text"
    /\ Delegates
    /\ Truthy(t_text)
    /\ Len(t_text) >= 10
    /\ Len(Strip(t_text)) < 10
    /\ t_result = Other0

\* C2: classify_with_keywords returns a category whose score is maximal, the
\* first of them in the order Pin Definitions, Programming Instructions,
\* Component Descriptions, Troubleshooting Tips when several tie; "pinout diagram
\* gpio analog" yields Pin Definitions with confidence > 0.
C2_FirstMaximalCategory ==
    /\ KeywordCalled =>
          LET score == ExpectedScores(t_text)
          IN  (\E k \in 1..4 : score[k] > 0) =>
                  \E k \in 1..4 :
                      /\ t_result.category = keyword_categories[k].category
                      /\ \A j \in 1..4 : score[j] <= score[k]
                      /\ \A j \in 1..(k - 1) : score[j] < score[k]
    /\ (KeywordCalled /\ t_text = <<"p","i","n","o","u","t"," ","d","i","a","g","r","a","m"," ","g","p","i","o"," ","a","n","a","l","o","g">>) =>
          /\ t_result.category = "Pin Definitions"
          /\ t_result.confidence.num > 0
    /\ <<keyword_categories[1].category, keyword_categories[2].category,
         keyword_categories[3].category, keyword_categories[4].category>>
       = <<"Pin Definitions", "Programming Instructions", "Component Descriptions",
           "Troubleshooting Tips">>

\* two categories tie for the maximal score and the earlier one is returned
C2_Witness ==
    /\ KeywordCalled
    /\ LET score == ExpectedScores(t_text)
       IN  \E j, k \in 1..4 :
               /\ j < k
               /\ score[j] > 0
               /\ score[j] = score[k]
               /\ \A i \in 1..4 : score[i] <= score[j]
               /\ t_result.category = keyword_categories[j].category

\* C3 as stated: a category's score is +2 for every keyword matching as a whole
\* word and +1 for every keyword occurring as a substring, a keyword for which
\* both patterns match contributing both increments.
C3_DoubleCountedScore ==
    KeywordCalled =>
        \A n \in 1..Len(t_scores) :
            t_scores[n].score =
                2 * Cardinality(WordHits(Lower(t_text), t_scores[n].k))
                + Cardinality(SubstringHits(Lower(t_text), t_scores[n].k))

\* C3 amended: a category's score is the sum over its keywords of 2 when the
\* keyword matches the lower-cased text as a whole word, and otherwise of 1 when
\* it occurs in it as a substring; no keyword contributes both increments.
\* category_scores holds exactly the categories whose score is above zero.
C3_ScoreIsTwoOrOnePerKeyword ==
    KeywordCalled =>
        LET score == ExpectedScores(t_text)
        IN  /\ \A n \in 1..Len(t_scores) : t_scores[n].score = score[t_scores[n].k]
            /\ \A k \in 1..4 :
                  score[k] > 0 <=> \E n \in 1..Len(t_scores) : t_scores[n].k = k

\* a category scored by a whole-word keyword and by a substring-only keyword
C3_Witness ==
    /\ KeywordCalled
    /\ \E n \in 1..Len(t_scores) :
          /\ WordHits(Lower(t_text), t_scores[n].k) # {}
          /\ SubstringHits(Lower(t_text), t_scores[n].k)
                \ WordHits(Lower(t_text), t_scores[n].k) # {}
          /\ t_scores[n].score = ExpectedScore(t_text, t_scores[n].k)

\* C4: every confidence classify_text returns lies in [0, 1]; when the keyword
\* scorer decided, it equals min(score / (2 x number of keywords of the winning
\* category), 1.0) for that category's score.
C4_ConfidenceRange ==
    t_op = "classify_text" =>
        /\ t_result.confidence.den > 0
        /\ 0 <= t_result.confidence.num
        /\ t_result.confidence.num <= t_result.confidence.den
        /\ \A n \in 1..Len(t_scores) :
              t_scores[n].category = t_result.category =>
                  LET score == t_scores[n].score
                      max_possible == 2 * Len(keyword_categories[t_scores[n].k].keywords)
                  IN  IF score >= max_possible
                      THEN t_result.confidence.num = t_result.confidence.den
                      ELSE t_result.confidence.num * max_possible
                             = score * t_result.confidence.den

\* classify_text in keyword mode returns a confidence strictly between 0 and 1
C4_Witness ==
    /\ t_op = "classify_text"
    /\ ~t_invoked
    /\ \E n \in 1..Len(t_scores) :
          /\ t_scores[n].category = t_result.category
          /\ t_result.confidence.num = t_scores[n].score
          /\ t_result.confidence.den = 2 * Len(keyword_categories[t_scores[n].k].keywords)
    /\ 0 < t_result.confidence.num
    /\ t_result.confidence.num < t_result.confidence.den

\* some keyword of some category occurs in the lower-cased text
SomeKeywordOccurs(text) ==
    Truthy(text) /\ \E k \in 1..4 : SubstringHits(Lower(text), k) # {}

\* C5: classify_with_keywords returns ("Other", 0.0) exactly when no category
\* scores above zero; when some category does, the category is not "Other" and
\* the confidence is strictly positive.
C5_OtherIffNoScore ==
    t_op = "classify_with_keywords" =>
        LET scored == SomeKeywordOccurs(t_text)
        IN  /\ t_result = Other0 <=> ~scored
            /\ scored =>
                  /\ t_result.category # "Other"
                  /\ t_result.confidence.num > 0
                  /\ t_result.confidence.den > 0

\* a text whose only keyword occurrence is inside a longer word
C5_Witness ==
    /\ t_op = "classify_with_keywords"
    /\ SomeKeywordOccurs(t_text)
    /\ \A k \in 1..4 : WordHits(Lower(t_text), k) = {}
    /\ t_result.category # "Other"

\* what classify_text returns in keyword mode
KeywordModeResult(text) ==
    IF ~Truthy(text) \/ Len(Strip(text)) < 10 THEN Other0
    ELSE LET r == classify_with_keywords(text)
         IN  [category |-> r.category, confidence |-> r.confidence]

\* C6: with use_openai set, a failed delegated call (it raises, or its response
\* is malformed) and an unavailable capability (no API key, no library) make
\* classify_text return what keyword mode returns for the same text; a
\* successful delegated classification returns confidence 0.9.
C6_FallbackToKeywords ==
    t_op = "classify_text" =>
        /\ (~t_invoked \/ t_outcome.kind \in {"raise", "malformed"}) =>
              t_result = KeywordModeResult(t_text)
        /\ (t_invoked /\ t_outcome.kind = "ok") => t_result.confidence = Frac(9, 10)

\* the service was called, failed, and the keyword scorer found a category
C6_Witness ==
    /\ t_op = "classify_text"
    /\ use_openai
    /\ t_invoked
    /\ t_outcome.kind \in {"raise", "malformed"}
    /\ t_result.category # "Other"
    /\ t_result = KeywordModeResult(t_text)

\* C7: the category classify_text returns is always one of Pin Definitions,
\* Programming Instructions, Component Descriptions, Troubleshooting Tips and
\* Other, whatever the text-completion service responds.
C7_CategoryInFixedSet ==
    t_op = "classify_text" => t_result.category \in TextCategories

(***************************************************************************)
(* Properties of ImageClassifier, checked under SpecImage.                 *)
(***************************************************************************)
\* some keyword of the k-th image category occurs in the lower-cased name
HasKeyword(filename, k) ==
    \E i \in 1..Len(categories[k].keywords) :
        Contains(Lower(filename), categories[k].keywords[i])

NoKeyword(filename) == \A k \in 1..Len(categories) : ~HasKeyword(filename, k)

\* the feature rules, on the decoded width and height and the size in bytes
FeatureRule(width, height, bytes) ==
    IF width > height /\ width > 800 THEN "pinouts"
    ELSE IF /\ height > 0
            /\ 8 * height < 10 * width
            /\ 10 * width < 12 * height
            /\ bytes < 500 * 1024
         THEN "components"
    ELSE IF 2 * width > 3 * height THEN "tutorials"
    ELSE "other"

\* C8: when the lower-cased filename contains a keyword of some category,
\* classify_image returns the first category in the order pinouts, tutorials,
\* components, circuits that has such a keyword, with confidence 0.8 and method
\* "filename", whatever the decoded features; the feature-based category, with
\* confidence 0.6, is used only when no keyword occurs in the filename.
C8_FilenameFirst ==
    i_op = "classify_image" =>
        /\ \A k \in 1..4 :
              (HasKeyword(FileName(i_file), k)
               /\ \A j \in 1..(k - 1) : ~HasKeyword(FileName(i_file), j)) =>
                  /\ i_result.category = categories[k].category
                  /\ i_result.confidence = Frac(8, 10)
                  /\ i_result.classification_method = "filename"
        /\ i_result.classification_method = "features" <=> NoKeyword(FileName(i_file))
        /\ i_result.classification_method = "features" =>
              i_result.confidence = Frac(6, 10)
        /\ <<categories[1].category, categories[2].category, categories[3].category,
             categories[4].category>> = <<"pinouts", "tutorials", "components", "circuits">>

\* the name holds keywords of two categories and the decoded features point to
\* a third one
C8_Witness ==
    /\ i_op = "classify_image"
    /\ \E j, k \in 1..4 :
          /\ j < k
          /\ HasKeyword(FileName(i_file), j)
          /\ HasKeyword(FileName(i_file), k)
          /\ i_result.category = categories[j].category
    /\ i_file.decodable
    /\ FeatureRule(i_file.width, i_file.height, i_file.bytes)
          \notin {"other", i_result.category}
    /\ i_result.classification_method = "filename"

\* C9: with no keyword in the filename, the first feature rule that applies
\* decides: width > height and width > 800 gives pinouts; else 0.8 < aspect_ratio
\* < 1.2 and size_kb < 500 gives components; else width > 1.5 x height gives
\* tutorials; otherwise other.  1000x400 is pinouts, aspect ratio 1.0 at 100 KB is
\* components, and aspect_ratio is 0 when height is 0.
C9_FeatureRules ==
    /\ (i_op = "classify_image" /\ NoKeyword(FileName(i_file)) /\ i_file.decodable
        /\ i_file.readable) =>
          /\ i_result.category = FeatureRule(i_file.width, i_file.height, i_file.bytes)
          /\ i_file.height = 0 => i_result.features.aspect_ratio.num = 0
          /\ (i_file.width = 1000 /\ i_file.height = 400) => i_result.category = "pinouts"
          /\ (i_file.width = i_file.height /\ i_file.bytes = 100 * 1024) =>
                i_result.category = "components"
    /\ (i_op = "classify_by_features" /\ i_file.decodable /\ i_file.readable) =>
          i_result = FeatureRule(i_file.width, i_file.height, i_file.bytes)

\* a square image of 100 KB whose name holds no keyword
C9_Witness ==
    /\ i_op = "classify_image"
    /\ NoKeyword(FileName(i_file))
    /\ i_file.decodable
    /\ i_file.width = i_file.height
    /\ i_file.bytes = 100 * 1024
    /\ i_result.category = "components"
    /\ i_result.classification_method = "features"

(***************************************************************************)
(* Properties of organize_images, checked under SpecOrganize.              *)
(***************************************************************************)
\* C10: an image file that cannot be decoded is classified "other" with
\* confidence 0.0 and no features, its entry in the batch results is an error
\* entry for that file, and organize_images goes on to process every remaining
\* file.
C10_DecodeFailureIsErrorEntry ==
    /\ \A n \in 1..Len(classification_results) :
          ~image_files[n].decodable =>
              /\ classify_image(image_files[n]).category = "other"
              /\ classify_image(image_files[n]).confidence = Zero
              /\ classify_image(image_files[n]).features = NoFeatures
              /\ classification_results[n].filename = FileName(image_files[n])
              /\ classification_results[n].organized = FALSE
    /\ o_pc = "done" /\ source_exists =>
          Len(classification_results) = Len(image_files)

\* the source file a destination file was copied from
SourceOf(d) ==
    CHOOSE img \in {source_files[i] : i \in 1..Len(source_files)} :
        d.origin = <<img.dir, FileName(img)>>

\* name is stem_k.ext of img for some k >= 1
HasNumericSuffix(name, img, dest) ==
    \E k \in 1..(Cardinality(dest) + 1) : name = SuffixedName(img, k)

\* C11: organize_images never moves, deletes or modifies a source file and never
\* overwrites a file of a destination category directory: every step keeps the
\* source and every destination file as they are, and the file a step copies
\* goes to the directory of its category under its own name if that is free,
\* otherwise under stem_k.ext for the smallest k >= 1 whose name is free.
C11_CopyUnderFreeName ==
    [][/\ source_exists' = source_exists
       /\ source_files' = source_files
       /\ dest_files \subseteq dest_files'
       /\ (o_pc = "loop" /\ o_idx' = o_idx + 1) =>
             LET img == image_files[o_idx]
                 r == classification_results'[o_idx]
                 taken(name) == DestExists(dest_files, r.category, name)
             IN  IF r.organized
                 THEN \E d \in dest_files' :
                         /\ dest_files' \ dest_files = {d}
                         /\ d.category = r.category
                         /\ d.origin = <<img.dir, FileName(img)>>
                         /\ r.new_path = <<"classified_images", d.category, d.name>>
                         /\ IF ~taken(FileName(img))
                            THEN d.name = FileName(img)
                            ELSE \E k \in 1..(Cardinality(dest_files) + 1) :
                                    /\ d.name = SuffixedName(img, k)
                                    /\ ~taken(d.name)
                                    /\ \A j \in 1..(k - 1) : taken(SuffixedName(img, j))
                 ELSE dest_files' = dest_files
      ]_vars

\* a file that was there before the first run is still there, next to a copy
\* that had to take the suffix _2
C11_Witness ==
    /\ OldFile("pinouts", <<"p","i","n","o","u","t",".","p","n","g">>) \in dest_files
    /\ \E d \in dest_files :
          /\ d.origin # <<"old">>
          /\ d.name = <<"p","i","n","o","u","t","_","2",".","p","n","g">>
          /\ FileName(SourceOf(d)) = <<"p","i","n","o","u","t",".","p","n","g">>

\* C12: the second run of organize_images on the unchanged source directory
\* keeps every destination file of the first run, and every file it writes
\* carries a numeric suffix and a name no file of the first run has in that
\* directory.
C12_SecondRunSuffixes ==
    [][o_runs = 1 =>
          /\ source_files' = source_files
          /\ {d \in dest_files : d.run <= 1} \subseteq dest_files'
          /\ \A d \in dest_files' \ dest_files :
                /\ d.run = 2
                /\ HasNumericSuffix(d.name, SourceOf(d), dest_files')
                /\ \A e \in dest_files :
                      e.run <= 1 => ~(e.category = d.category /\ e.name = d.name)
      ]_vars

\* both runs are over, and the second wrote a file next to one of the first
C12_Witness ==
    /\ o_runs = 2
    /\ o_pc = "done"
    /\ \E d, e \in dest_files :
          /\ d.run = 1
          /\ e.run = 2
          /\ e.origin = d.origin
          /\ e.category = d.category

(***************************************************************************)
(* Properties of DataCleaner, checked under SpecMapper.                    *)
(***************************************************************************)
\* schema_mapping is what one call of map_to_schema on a new DataCleaner gave
FirstOutput == cleaner = "DataCleaner" /\ m_calls = 1 /\ data # <<>>

\* the values of the column named col in the concatenated frames
ValuesOf(col) ==
    LET all_data == pd_concat(data)
    IN  {all_data.rows[k][PositionOf(all_data.columns, col)] :
            k \in 1..Len(all_data.rows)}

\* the rows of the concatenated frames under the columns cols
RowsOf(cols) ==
    LET all_data == pd_concat(data)
    IN  {[c \in 1..Len(cols) |-> all_data.rows[k][PositionOf(all_data.columns, cols[c])]] :
            k \in 1..Len(all_data.rows)}

\* the names of the columns that hold a token of keywords
Matching(keywords) == ColumnsWith(pd_concat(data), keywords)

\* C13: in the output of map_to_schema device names are unique: with
\* device-matching columns in the input there is exactly one Device per
\* distinct value of the first such column, whatever the other device-matching
\* columns hold.
C13_DeviceNamesUnique ==
    FirstOutput =>
        LET Devices == schema_mapping.Devices
        IN  /\ \A i, j \in 1..Len(Devices) :
                  i # j => Devices[i].DeviceName # Devices[j].DeviceName
            /\ Matching(device_keywords) # <<>> =>
                  /\ {Devices[k].DeviceName : k \in 1..Len(Devices)} =
                        {Str(v) : v \in ValuesOf(Matching(device_keywords)[1])}
                  /\ Len(Devices) =
                        Cardinality(ValuesOf(Matching(device_keywords)[1]))

\* C14: the k-th emitted Device has DeviceID k and the k-th emitted Guide has
\* GuideID k: the keys run from 1 without gaps, also when duplicate rows were
\* dropped before emission.
C14_SequentialKeys ==
    FirstOutput =>
        /\ \A k \in 1..Len(schema_mapping.Devices) :
              schema_mapping.Devices[k].DeviceID = k
        /\ \A k \in 1..Len(schema_mapping.Guides) :
              schema_mapping.Guides[k].GuideID = k

\* C15: map_to_schema never fails hard, whatever columns the input has or
\* lacks and also on empty input: without a device column exactly one fallback
\* Device ("Arduino UNO R3", "Microcontroller Board") is emitted, without a
\* guide column exactly one fallback Guide, and without a step column the
\* fixed default steps.
C15_NeverFailsHard ==
    /\ m_op # "ValueError"
    /\ FirstOutput =>
          /\ Matching(device_keywords) = <<>> =>
                /\ Len(schema_mapping.Devices) = 1
                /\ schema_mapping.Devices[1].DeviceName = <<"A","r","d","u","i","n","o"," ","U","N","O"," ","R","3">>
                /\ schema_mapping.Devices[1].DeviceType = <<"M","i","c","r","o","c","o","n","t","r","o","l","l","e","r"," ","B","o","a","r","d">>
          /\ Matching(guide_keywords) = <<>> =>
                /\ Len(schema_mapping.Guides) = 1
                /\ schema_mapping.Guides[1].Title = <<"G","e","t","t","i","n","g"," ","S","t","a","r","t","e","d"," ","w","i","t","h"," ","A","r","d","u","i","n","o"," ","U","N","O">>
          /\ Matching(step_keywords) = <<>> =>
                /\ Len(schema_mapping.Steps) = 4 * Len(schema_mapping.Guides)
                /\ \A n \in 1..Len(schema_mapping.Steps) :
                      schema_mapping.Steps[n].Description =
                          DefaultSteps.rows[((n - 1) % 4) + 1][1]

\* C16: the Steps are the cross product of the guides and the extracted step
\* rows; within each guide the StepNumber values are exactly 1..m in
\* increasing order, and StepID runs from 1 to |Steps| over the whole output.
C16_StepsCrossProduct ==
    FirstOutput =>
        LET Steps == schema_mapping.Steps
            Guides == schema_mapping.Guides
            step_cols == Matching(step_keywords)
            m == IF step_cols # <<>> THEN Cardinality(RowsOf(step_cols)) ELSE 4
        IN  /\ Len(Steps) = Len(Guides) * m
            /\ \A g \in 1..Len(Guides) : \A j \in 1..m :
                  LET n == (g - 1) * m + j
                  IN  n <= Len(Steps) =>
                          /\ Steps[n].GuideID = g
                          /\ Steps[n].StepNumber = j
                          /\ Steps[n].StepID = n

\* C17: every Component's DeviceID is the DeviceID of a Device of the same
\* output; each distinct component-matching row yields one Component, owned by
\* Device #1, so a Device with id 1 exists whenever a Component exists.
C17_ComponentsOwnedByDevice1 ==
    LET Devices == schema_mapping.Devices
        Components == schema_mapping.Components
    IN  /\ \A c \in 1..Len(Components) :
              /\ Components[c].DeviceID = 1
              /\ \E d \in 1..Len(Devices) :
                    Devices[d].DeviceID = Components[c].DeviceID
        /\ FirstOutput =>
              Len(Components) =
                  (IF Matching(component_keywords) = <<>> THEN 0
                   ELSE Cardinality(RowsOf(Matching(component_keywords))))

\* two rows agree on the device column, and both became Components of Device 1
C17_Witness ==
    /\ FirstOutput
    /\ Len(schema_mapping.Components) = 2
    /\ Len(schema_mapping.Devices) = 1
    /\ Matching(device_keywords) # <<>>
    /\ schema_mapping.Devices[1].DeviceID = 1
    /\ schema_mapping.Components[2].Description = <<"O","'","R","e","i","l","l","y","'","s"," ","g","u","i","d","e">>

\* C18: a second call of map_to_schema on the same cleaned data yields the
\* Devices, Components and Guides of the first call, with the same ids in the
\* same order: the repeat adds, duplicates and renumbers nothing.
C18_RepeatIsIdempotent ==
    (cleaner = "DataCleaner" /\ m_calls = 2 /\ data # <<>>) =>
        LET first == map_to_schema(data, NewSchemaMapping)
        IN  /\ schema_mapping.Devices = first.Devices
            /\ schema_mapping.Components = first.Components
            /\ schema_mapping.Guides = first.Guides

(***************************************************************************)
(* Properties of generate_sql_inserts, checked under SpecMapper.           *)
(***************************************************************************)
\* sql_statements holds the statements of the records of schema_mapping
Generated == m_op = "generate_sql_inserts"

\* the statement of the k-th record of a table: one comment line goes before
\* the statements of each table
StatementOf(table, k) ==
    LET D == Len(schema_mapping.Devices)
        C == Len(schema_mapping.Components)
        G == Len(schema_mapping.Guides)
    IN  sql_statements[k + (CASE table = "Devices" -> 1
                              [] table = "Components" -> 2 + D
                              [] table = "Guides" -> 3 + D + C
                              [] table = "Steps" -> 4 + D + C + G)]

\* the single quotes of text before its i-th character
QuotesBefore(text, i) == Cardinality({j \in 1..(i - 1) : text[j] = "'"})

\* lit is text with two single quotes for each single quote, all else as it is
IsDoubled(text, lit) ==
    /\ Len(lit) = Len(text) + QuotesBefore(text, Len(text) + 1)
    /\ \A i \in 1..Len(text) :
          LET p == i + QuotesBefore(text, i)
          IN  /\ lit[p] = text[i]
              /\ text[i] = "'" => lit[p + 1] = "'"

\* from position start on, statement holds the quoted literal of text
HasLiteralAt(statement, start, text) ==
    LET n == Len(text) + QuotesBefore(text, Len(text) + 1)
    IN  /\ start + n + 1 <= Len(statement)
        /\ statement[start] = "'"
        /\ IsDoubled(text, SubSeq(statement, start + 1, start + n))
        /\ statement[start + n + 1] = "'"

\* statement ends with the quoted literal of text and the closing ");"
EndsWithLiteral(statement, text) ==
    LET n == Len(text) + QuotesBefore(text, Len(text) + 1)
    IN  /\ Len(statement) >= n + 4
        /\ HasLiteralAt(statement, Len(statement) - n - 3, text)
        /\ SubSeq(statement, Len(statement) - 1, Len(statement)) = <<")",";">>

\* C19: generate_sql_inserts renders every single quote of a Component or Step
\* description as two single quotes in the INSERT statement of the record and
\* leaves every other character of the description as it is.
C19_DescriptionQuotesDoubled ==
    Generated =>
        /\ \A k \in 1..Len(schema_mapping.Components) :
              EndsWithLiteral(StatementOf("Components", k),
                              schema_mapping.Components[k].Description)
        /\ \A k \in 1..Len(schema_mapping.Steps) :
              EndsWithLiteral(StatementOf("Steps", k),
                              schema_mapping.Steps[k].Description)

\* the description O'Reilly's guide of a Component and of a Step is rendered
\* as O''Reilly''s guide
C19_Witness ==
    /\ Generated
    /\ \E k \in 1..Len(schema_mapping.Components) :
          /\ schema_mapping.Components[k].Description = <<"O","'","R","e","i","l","l","y","'","s"," ","g","u","i","d","e">>
          /\ Contains(StatementOf("Components", k), <<","," ","'","O","'","'","R","e","i","l","l","y","'","'","s"," ","g","u","i","d","e","'",")",";">>)
    /\ \E k \in 1..Len(schema_mapping.Steps) :
          /\ schema_mapping.Steps[k].Description = <<"O","'","R","e","i","l","l","y","'","s"," ","g","u","i","d","e">>
          /\ Contains(StatementOf("Steps", k), <<","," ","'","O","'","'","R","e","i","l","l","y","'","'","s"," ","g","u","i","d","e","'",")",";">>)

\* the length of a statement up to and with the "(" of VALUES; the line break
\* before VALUES is the one character more
HeadLength(table) ==
    1 + Len(CASE table = "Devices" ->
                   <<"I","N","S","E","R","T"," ","I","N","T","O"," ","D","e","v","i","c","e","s"," ","(","D","e","v","i","c","e","N","a","m","e",","," ","D","e","v","i","c","e","T","y","p","e",","," ","I","m","a","g","e","U","R","L",")"," ","V","A","L","U","E","S"," ","(">>
              [] table = "Components" ->
                   <<"I","N","S","E","R","T"," ","I","N","T","O"," ","C","o","m","p","o","n","e","n","t","s"," ","(","D","e","v","i","c","e","I","D",","," ","C","o","m","p","o","n","e","n","t","N","a","m","e",","," ","D","e","s","c","r","i","p","t","i","o","n",")"," ","V","A","L","U","E","S"," ","(">>
              [] table = "Guides" /\ cleaner = "DataCleaner" ->
                   <<"I","N","S","E","R","T"," ","I","N","T","O"," ","G","u","i","d","e","s"," ","(","D","e","v","i","c","e","I","D",","," ","T","i","t","l","e",","," ","D","a","t","e","C","r","e","a","t","e","d",")"," ","V","A","L","U","E","S"," ","(">>
              [] table = "Guides" /\ cleaner # "DataCleaner" ->
                   <<"I","N","S","E","R","T"," ","I","N","T","O"," ","G","u","i","d","e","s"," ","(","D","e","v","i","c","e","I","D",","," ","T","i","t","l","e",","," ","D","a","t","e","C","r","e","a","t","e","d",","," ","G","u","i","d","e","U","R","L",")"," ","V","A","L","U","E","S"," ","(">>)

\* C20: generate_sql_inserts doubles the single quotes of every free-text field
\* it writes, DeviceName, DeviceType, ComponentName and the Guide Title as well
\* as the descriptions, so that no value ends its quoted literal early.
C20_EveryFieldEscaped ==
    Generated =>
        /\ C19_DescriptionQuotesDoubled
        /\ \A k \in 1..Len(schema_mapping.Devices) :
              LET device == schema_mapping.Devices[k]
                  start == HeadLength("Devices") + 1
                  n == Len(device.DeviceName)
                       + QuotesBefore(device.DeviceName, Len(device.DeviceName) + 1)
              IN  /\ HasLiteralAt(StatementOf("Devices", k), start, device.DeviceName)
                  /\ HasLiteralAt(StatementOf("Devices", k), start + n + 4,
                                  device.DeviceType)
        /\ \A k \in 1..Len(schema_mapping.Components) :
              LET component == schema_mapping.Components[k]
              IN  HasLiteralAt(StatementOf("Components", k),
                               HeadLength("Components")
                               + Len(ToStr(component.DeviceID)) + 3,
                               component.ComponentName)
        /\ \A k \in 1..Len(schema_mapping.Guides) :
              LET guide == schema_mapping.Guides[k]
              IN  HasLiteralAt(StatementOf("Guides", k),
                               HeadLength("Guides") + Len(ToStr(guide.DeviceID)) + 3,
                               guide.Title)

\* s begins with prefix
StartsWith(s, prefix) ==
    Len(s) >= Len(prefix) /\ SubSeq(s, 1, Len(prefix)) = prefix

\* the statements of sql_statements, the comment lines left out
InsertStatements ==
    SelectSeq(sql_statements, LAMBDA s : StartsWith(s, <<"I","N","S","E","R","T"," ","I","N","T","O"," ">>))

\* an optional field is written as the quoted URL, or as NULL for None, at
\* the end of the statement
OptionalFieldAtEnd(statement, url) ==
    IF url = None
    THEN /\ EndsWith(statement, <<","," ","N","U","L","L",")",";">>)
         /\ ~EndsWith(statement, <<"'","'",")",";">>)
         /\ ~EndsWith(statement, <<"'","N","o","n","e","'",")",";">>)
    ELSE EndsWith(statement, <<","," ","'">> \o url \o <<"'",")",";">>)

StepsWithGuideID(id) ==
    {k \in 1..Len(schema_mapping.Steps) : schema_mapping.Steps[k].GuideID = id}

\* C27: in the output of map_to_schema every Step's GuideID is the GuideID of
\* a Guide of the same output and every Guide owns as many Steps as every
\* other, also when duplicate rows were dropped before the guides were
\* extracted.
C27_StepsReferToGuides ==
    FirstOutput =>
        LET Guides == schema_mapping.Guides
            Steps == schema_mapping.Steps
        IN  /\ \A s \in 1..Len(Steps) :
                  \E g \in 1..Len(Guides) : Guides[g].GuideID = Steps[s].GuideID
            /\ \A g, h \in 1..Len(Guides) :
                  Cardinality(StepsWithGuideID(Guides[g].GuideID))
                     = Cardinality(StepsWithGuideID(Guides[h].GuideID))

(***************************************************************************)
(* Properties of the keyword lists of ImageClassifier, checked under       *)
(* SpecImage.                                                              *)
(***************************************************************************)
\* C29: every keyword of an image category decides: for each of pinouts,
\* tutorials, components and circuits and each keyword of its list,
\* classify_by_filename of the keyword followed by an image extension returns
\* that category.
C29_EveryKeywordDecides ==
    i_op = "classify_by_filename" =>
        \A c \in 1..Len(categories) :
            \A k \in 1..Len(categories[c].keywords) :
                (/\ i_file.stem = categories[c].keywords[k]
                 /\ InSeq(image_extensions, i_file.suffix))
                    => i_result = categories[c].category

(***************************************************************************)
(* Properties of DataComparer and of process_data_file, checked under      *)
(* SpecFiles.                                                              *)
(***************************************************************************)
\* compare_categories has returned: the two files hold the data it compared
Compared == f_op = "compare_categories"

\* the categories of the records of a file, "Unknown" for a record without one
CategorySet(file) ==
    {file.content[k].category :
        k \in {j \in 1..Len(file.content) :
                  /\ file.content[j].kind = "dict"
                  /\ "category" \in DOMAIN file.content[j]}}
    \cup (IF \E j \in 1..Len(file.content) :
                /\ file.content[j].kind = "dict"
                /\ "category" \notin DOMAIN file.content[j]
          THEN {"Unknown"} ELSE {})

\* C22: compare_categories reports as common_categories the intersection of
\* the category sets of the two sources and as unique_to_scraper and
\* unique_to_llm the two differences: the three sets are pairwise disjoint,
\* their union is the union of the categories of both sources, and
\* total_overlap is the size of common_categories.
C22_CategorySets ==
    Compared =>
        LET S == CategorySet(scraper_file)
            L == CategorySet(llm_file)
            c == f_result.comparison
        IN  /\ c.common_categories = S \cap L
            /\ c.unique_to_scraper = S \ L
            /\ c.unique_to_llm = L \ S
            /\ c.common_categories \cap c.unique_to_scraper = {}
            /\ c.common_categories \cap c.unique_to_llm = {}
            /\ c.unique_to_scraper \cap c.unique_to_llm = {}
            /\ c.common_categories \cup c.unique_to_scraper \cup c.unique_to_llm = S \cup L
            /\ c.total_overlap = Cardinality(c.common_categories)

\* the sources {A: 2, B: 1} and {A: 1, C: 3} were compared: A is common, B
\* is unique to the first and C to the second
C22_Witness ==
    /\ Compared
    /\ scraper_file = ExampleFirst
    /\ llm_file = ExampleSecond
    /\ f_result.comparison.common_categories = {"Pin Definitions"}
    /\ f_result.comparison.unique_to_scraper = {"Troubleshooting Tips"}
    /\ f_result.comparison.unique_to_llm = {"Other"}
    /\ f_result.comparison.total_overlap = 1

\* the number a string of digits writes
RECURSIVE ParseNat(_)
ParseNat(s) ==
    IF s = <<>> THEN 0
    ELSE 10 * ParseNat(SubSeq(s, 1, Len(s) - 1)) + PositionOf(Digits, s[Len(s)]) - 1

\* the tenths of a percent that a percentage "d.d%" writes
TenthsOf(percentage) ==
    LET n == Len(percentage)
    IN  10 * ParseNat(SubSeq(percentage, 1, n - 3)) + ParseNat(<<percentage[n - 1]>>)

\* the sum of f over its domain
RECURSIVE SumOf(_)
SumOf(f) ==
    IF DOMAIN f = {} THEN 0
    ELSE LET x == CHOOSE y \in DOMAIN f : TRUE
         IN  f[x] + SumOf([y \in DOMAIN f \ {x} |-> f[y]])

\* the percentages of one source: each is count / total x 100 to the nearest
\* tenth, the counts add up to the total, and the percentages to 100 but for
\* the rounding of each
PercentagesAddUp(source) ==
    LET counts == source.categories
        tenths == [cat \in DOMAIN counts |-> TenthsOf(source.category_distribution[cat])]
        off == SumOf(tenths) - 1000
    IN  /\ \A cat \in DOMAIN counts :
              LET d == tenths[cat] * source.total_items - 1000 * counts[cat]
              IN  2 * d <= source.total_items /\ -2 * d <= source.total_items
        /\ SumOf(counts) = source.total_items
        /\ DOMAIN counts # {} =>
              2 * off <= Cardinality(DOMAIN counts) /\ -2 * off <= Cardinality(DOMAIN counts)

\* C23: for each source compare_categories reports for every category the
\* percentage count / total of the source x 100; the counts of a source add up
\* to its total, so its percentages add up to 100 up to rounding, for every
\* list, also one that holds items that are not records or records without a
\* category.
C23_PercentagesSumTo100 ==
    Compared =>
        /\ PercentagesAddUp(f_result.scraper_data)
        /\ PercentagesAddUp(f_result.llm_data)

\* a comparison says that made-up data was used: it holds more than the
\* three sections that are computed from the data
FlagsPlaceholder(comparison) ==
    DOMAIN comparison # {"scraper_data", "llm_data", "comparison"}

\* C24: when the file of a source is absent, compare_categories does not fail
\* but compares the fixed placeholder data of that source, and the comparison
\* it returns and saves flags that placeholder data was used; with both files
\* present there is no such flag.
C24_PlaceholderIsFlagged ==
    Compared =>
        /\ "scraper" \in f_created =>
              f_result.scraper_data.total_items = Len(sample_scraper_data)
        /\ "llm" \in f_created =>
              f_result.llm_data.total_items = Len(sample_llm_data)
        /\ comparison_file = JsonFile(f_result)
        /\ FlagsPlaceholder(f_result) <=> f_created # {}

\* C25: process_data_file and compare_categories leave their input files as
\* they found them: after either returns, each of its input files exists if
\* and only if it did before, with the same content.
C25_InputFilesUnchanged ==
    [][/\ f_op' \in {"process_data_file", "TypeError"} => raw_file' = raw_file
       /\ f_op' = "compare_categories" =>
             scraper_file' = scraper_file /\ llm_file' = llm_file]_vars

\* the method of the call that produced the category of an item
MethodOfCall(text, outcome) ==
    IF InvokesService(text) /\ outcome.kind = "ok" THEN "openai" ELSE "keyword_based"

\* C28: in every record process_data_file writes, classification_method names
\* the method that produced the category of the record: "openai" only if the
\* delegated call was made and succeeded for the item, "keyword_based" when
\* the keyword scorer or the short-text rule produced it.
C28_MethodNamesTheCall ==
    f_op = "process_data_file" =>
        \A k \in 1..Len(llm_file.content) :
            llm_file.content[k].classification_method
                = MethodOfCall(TextOf(raw_file.content[k]), f_outcomes[k])

(***************************************************************************)
(* Properties of main of the experimental pipeline, checked under          *)
(* SpecMain.                                                               *)
(***************************************************************************)
\* the result of every stage is recorded, False for a stage that raised
FiveResults ==
    /\ Len(p_results) = Len(pipelines)
    /\ \A i \in 1..Len(pipelines) :
          /\ p_results[i].name = pipelines[i]
          /\ p_results[i].success = (p_outcomes[i] = "completes")
          /\ p_runs[i] = 1

\* no stage is called twice and none before the stages ahead of it
StagesInOrder ==
    \A i \in 1..Len(pipelines) :
        /\ p_runs[i] <= 1
        /\ p_runs[i] = 1 => \A j \in 1..(i - 1) : p_runs[j] = 1

\* C26: in main a failure of any stage is caught and recorded as failed, every
\* later stage is still run exactly once in the fixed order, and the final
\* report is generated afterwards: whatever stages fail, the run ends with the
\* five stage results recorded.
C26_RunEndsWithFiveResults ==
    /\ [](StagesInOrder /\ p_pc # "aborted")
    /\ [](p_report # <<>> => FiveResults)
    /\ (p_pc = "stages") ~> (p_pc = "done" /\ FiveResults /\ p_report # <<>>)

\* a run in which the first and the third stage failed and the stages after
\* them completed has ended with its report
C26_Witness ==
    /\ p_pc = "done"
    /\ p_outcomes = <<"raises", "completes", "raises", "completes", "completes">>
    /\ p_results[1].success = FALSE
    /\ p_results[3].success = FALSE
    /\ p_results[4].success = TRUE
    /\ p_runs = <<1, 1, 1, 1, 1>>
    /\ p_report.components["data_search"] \in {"OK", "MISSING"}


(***************************************************************************)
(* Properties of DatabaseHandler.insert_scraped_data, checked under SpecDb.*)
(***************************************************************************)
\* the names the items ask for, in the order of the items
NamesOf(items) == [k \in 1..Len(items) |-> Get(items[k], "component", <<"U","n","k","n","o","w","n">>)]

\* the positions of the Devices rows with the name
RowsNamed(devices, name) == {k \in 1..Len(devices) : devices[k].DeviceName = name}

\* the call that has just returned persisted nothing
NothingPersisted == db' = db

\* the call that has just returned persisted the rows of all its items: a
\* Guides row for every item, a Components row for every item of type
\* component, and a Devices row for exactly the names that had none
AllPersisted ==
    LET names == NamesOf(d_data')
        new == (Len(db.Devices) + 1)..Len(db'.Devices)
    IN  /\ SubSeq(db'.Devices, 1, Len(db.Devices)) = db.Devices
        /\ Len(db'.Guides) = Len(db.Guides) + Len(d_data')
        /\ \A k \in 1..Len(d_data') :
              LET guide == db'.Guides[Len(db.Guides) + k]
              IN  /\ guide.Title = <<"G","u","i","d","e"," ","f","o","r"," ">> \o names[k]
                  /\ \E r \in RowsNamed(db'.Devices, names[k]) :
                        db'.Devices[r].DeviceID = guide.DeviceID
        /\ Len(db'.Components) = Len(db.Components)
              + Cardinality({k \in 1..Len(d_data') :
                                Get(d_data'[k], "type", "") = "component"})
        /\ \A r \in new :
              /\ RowsNamed(db.Devices, db'.Devices[r].DeviceName) = {}
              /\ RowsNamed(db'.Devices, db'.Devices[r].DeviceName) = {r}
              /\ \E k \in 1..Len(names) : names[k] = db'.Devices[r].DeviceName
        /\ \A k \in 1..Len(names) : RowsNamed(db'.Devices, names[k]) # {}

\* no two Devices rows that insert_scraped_data inserted share a DeviceName
InsertedNamesUnique ==
    \A r, q \in 1..Len(db.Devices) :
        /\ db.Devices[r].DeviceID \in d_inserted
        /\ db.Devices[q].DeviceID \in d_inserted
        /\ db.Devices[r].DeviceName = db.Devices[q].DeviceName
        => r = q

\* C30: insert_scraped_data is all-or-nothing and keeps device names unique:
\* when processing an item raises, the transaction is rolled back, False is
\* returned and no Devices, Components or Guides row of the call is persisted;
\* otherwise all rows are committed together and a Devices row is inserted
\* for a name only when no row with that DeviceName exists, so that after any
\* sequence of calls no two Devices rows inserted by the method share a
\* DeviceName.
C30_AllOrNothing ==
    /\ [][ /\ d_op' \in {"True", "False"}
           /\ d_op' = "False" => NothingPersisted
           /\ d_op' = "True" => AllPersisted ]_vars
    /\ []InsertedNamesUnique

\* a file naming the same board twice was committed with one Devices row and
\* two Guides rows, and then a call that had inserted a device before an item
\* raised was rolled back
C30_Witness ==
    /\ d_op = "False"
    /\ d_calls = 2
    /\ d_data = <<Resistor, Note>>
    /\ d_inserted = {1}
    /\ d_serial = 2
    /\ Len(db.Devices) = 1
    /\ db.Devices[1].DeviceName = <<"A","r","d","u","i","n","o"," ","U","n","o">>
    /\ Len(db.Guides) = 2
    /\ db.Components = <<>>

====
